---- MODULE Spec2Model ----
(***************************************************************************)
(* A model of the Cloudflare Images digital twin: the SQLite store, the    *)
(* blob store, and the HTTP handlers for upload, direct upload, delete,    *)
(* signing keys, delivery and the V2 (cursor) listing.                     *)
(*                                                                         *)
(* Strings whose content the code inspects (timestamps, cursors, ids,      *)
(* query parameters, signed messages) are sequences of character codes,    *)
(* compared bytewise as SQLite's BINARY collation and Go compare them.     *)
(***************************************************************************)
EXTENDS Integers, Sequences, FiniteSets, TLC

\* ------------------------------------------------------------------------
\* Bounds of the model
\* ------------------------------------------------------------------------
\* Clock ticks per second: time.Now() is finer than the second the store keeps.
TicksPerSec == 2
\* The clock stops advancing after this many ticks.
MaxNow == 3
\* Number of ids uuid.New() can hand out as image / upload ids.
MaxUuids == 3
\* Number of values uuid.New() can hand out as signing key values.
MaxKeyUuids == 2
\* Number of requests of a multi-step handler that can be in flight at once.
MaxConc == 2

\* ------------------------------------------------------------------------
\* Character codes
\* ------------------------------------------------------------------------
Ch0 == 48
ChDot == 46
ChSlash == 47
ChPipe == 124
ChZ == 90
ChMinus == 45
ChPlus == 43

Digit(n) == Ch0 + n
IsDigit(c) == c >= Ch0 /\ c <= Ch0 + 9

\* Bytewise comparison of two strings (memcmp, then length).
RECURSIVE StrLess(_, _)
StrLess(a, b) ==
    IF b = <<>> THEN FALSE
    ELSE IF a = <<>> THEN TRUE
    ELSE IF Head(a) < Head(b) THEN TRUE
    ELSE IF Head(a) > Head(b) THEN FALSE
    ELSE StrLess(Tail(a), Tail(b))

\* strings.Index for a single byte: 0 when absent, else the first position.
IndexOf(s, c) ==
    IF \E i \in 1..Len(s) : s[i] = c
    THEN CHOOSE i \in 1..Len(s) : s[i] = c /\ \A j \in 1..(i - 1) : s[j] # c
    ELSE 0

\* strings.SplitN(s, sep, 2) for a one-byte separator.
SplitN2(s, c) ==
    LET i == IndexOf(s, c)
    IN IF i = 0 THEN <<s>>
       ELSE <<SubSeq(s, 1, i - 1), SubSeq(s, i + 1, Len(s))>>

\* strconv.ParseInt(s, 10, 64) / strconv.Atoi: an optional sign, then digits.
RECURSIVE DigitsValue(_, _)
DigitsValue(s, acc) ==
    IF s = <<>> THEN acc ELSE DigitsValue(Tail(s), acc * 10 + (Head(s) - Ch0))

ParseInt(s) ==
    LET signed == s # <<>> /\ Head(s) \in {ChMinus, ChPlus}
        body == IF signed THEN Tail(s) ELSE s
        ok == body # <<>> /\ \A i \in 1..Len(body) : IsDigit(body[i])
    IN [ok |-> ok,
        val |-> IF ~ok THEN 0
                ELSE IF signed /\ Head(s) = ChMinus THEN 0 - DigitsValue(body, 0)
                ELSE DigitsValue(body, 0)]

\* strconv.FormatInt(n, 10) for the non-negative numbers of the model.
RECURSIVE FormatInt(_)
FormatInt(n) ==
    IF n < 10 THEN <<Digit(n)>> ELSE FormatInt(n \div 10) \o <<Digit(n % 10)>>

\* ------------------------------------------------------------------------
\* Time: a time.Time is a number of clock ticks; formats keep fixed width
\* ------------------------------------------------------------------------
Unix(t) == t \div TicksPerSec
Frac(t) == t % TicksPerSec

\* The date-and-time part of RFC 3339 has a fixed width: four digits of seconds.
SecWidth == 4

RECURSIVE DigN(_, _)
DigN(n, w) == IF w = 0 THEN <<>> ELSE DigN(n \div 10, w - 1) \o <<Digit(n % 10)>>

\* t.UTC().Format(time.RFC3339): whole seconds only.
FormatRFC3339(t) == DigN(Unix(t), SecWidth) \o <<ChZ>>

\* t.UTC().Format(time.RFC3339Nano): the fraction is printed only when not zero.
FormatRFC3339Nano(t) ==
    DigN(Unix(t), SecWidth)
        \o (IF Frac(t) = 0 THEN <<>> ELSE <<ChDot, Digit(Frac(t))>>)
        \o <<ChZ>>

\* time.Parse(time.RFC3339, s): whether s parses, and the time it gives (the
\* zero time on an error, which the store's callers drop).
ParsesRFC3339(s) ==
    LET secOK == Len(s) >= SecWidth /\ \A i \in 1..SecWidth : IsDigit(s[i])
        rest == SubSeq(s, SecWidth + 1, Len(s))
    IN secOK /\ \/ rest = <<ChZ>>
                \/ Len(rest) = 3 /\ rest[1] = ChDot /\ IsDigit(rest[2])
                     /\ rest[3] = ChZ

ParseRFC3339(s) ==
    LET sec == DigitsValue(SubSeq(s, 1, SecWidth), 0)
        rest == SubSeq(s, SecWidth + 1, Len(s))
    IN IF ~ParsesRFC3339(s) THEN 0
       ELSE IF rest = <<ChZ>> THEN sec * TicksPerSec
       ELSE sec * TicksPerSec + (rest[2] - Ch0)

\* ------------------------------------------------------------------------
\* Input domains
\* ------------------------------------------------------------------------
\* Two account ids, "A" and "B".
AcctA == <<65>>
AcctB == <<66>>
Accounts == {AcctA, AcctB}

\* The ids ("a", "b", ...) and key values ("x", "w", ...) uuid.New() can return.
ImageUuids == {<<97 + i>> : i \in 0..(MaxUuids - 1)}
KeyUuids == {<<120 - i>> : i \in 0..(MaxKeyUuids - 1)}

\* JSON metadata values and the string fmt.Sprintf("%v", v) gives for each.
StrVal(s) == [t |-> "str", s |-> s]
NumVal(n) == [t |-> "num", n |-> n]
Sprintf(v) == IF v.t = "str" THEN v.s ELSE FormatInt(v.n)

MetaKey == "k"
Metas ==
    {{}, {[key |-> MetaKey, value |-> StrVal(<<Digit(1)>>)]},
         {[key |-> MetaKey, value |-> StrVal(<<Digit(2)>>)]}}

SlotIds == 1..MaxConc

\* Stored bytes: the bytes themselves, and the width and height image.Decode
\* reads from them (0 and 0 when they do not decode).
Data(bytes, w, h) == [bytes |-> bytes, w |-> w, h |-> h]
NoData == Data(<<>>, 0, 0)

\* FF D8 FF; 89 "PNG" 0D 0A 1A 0A; "GIF89a"; "RIFF" size "WEBP"; "<svg"; "<?xml".
JpegSig == <<255, 216, 255>>
PngSig == <<137, 80, 78, 71, 13, 10, 26, 10>>
GifSig == <<71, 73, 70, 56, 57, 97>>
WebpSig == <<82, 73, 70, 70, 0, 0, 0, 0, 87, 69, 66, 80>>
SvgMarker == <<60, 115, 118, 103>>
XmlMarker == <<60, 63, 120, 109, 108>>

\* A small JPEG, and bytes that are no image.
JpegData == Data(JpegSig \o <<224>>, 2, 2)
TextData == Data(<<116, 101, 120, 116>>, 0, 0)

\* ------------------------------------------------------------------------
\* State
\* ------------------------------------------------------------------------
VARIABLES
    images,          \* table images
    image_metadata,  \* table image_metadata
    direct_uploads,  \* table direct_uploads
    variants,        \* table variants
    signing_keys,    \* table signing_keys
    blobs,           \* the blob store: <account>/<image>/original
    now,             \* the wall clock, in ticks
    issued,          \* the values uuid.New() has returned so far
    enforce,         \* Config.EnforceSignedURLs
    reqs,            \* the requests of multi-step handlers in flight
    uploadOK,        \* per upload id, the number of 200 answers of POST /upload/{id}
    walk,            \* a client following continuation tokens of GET /v2
    dlv,             \* the answer of the GET /cdn/... that has just completed
    auth             \* a signed URL a client has seen authorized, kept for reuse

vars == <<images, image_metadata, direct_uploads, variants, signing_keys, blobs,
          now, issued, enforce, reqs, uploadOK, walk, dlv, auth>>

dbVars == <<images, image_metadata, direct_uploads, variants, signing_keys, blobs>>

\* ------------------------------------------------------------------------
\* The store (SQLiteDB): queries as operators over the tables
\* ------------------------------------------------------------------------
\* scanImage: a row of images as a model.Image; uploaded is parsed as RFC 3339.
scanImage(row) ==
    [ID |-> row.id, AccountID |-> row.account_id, Meta |-> row.meta,
     RequireSignedURLs |-> row.require_signed_urls,
     Uploaded |-> ParseRFC3339(row.uploaded)]

\* The row CreateImage inserts: uploaded is kept to the second.
imageRow(img) ==
    [account_id |-> img.AccountID, id |-> img.ID, meta |-> img.Meta,
     require_signed_urls |-> img.RequireSignedURLs,
     uploaded |-> FormatRFC3339(img.Uploaded)]

\* A lookup of an image by its id alone.
GetImageAnyAccount(accountID, imageID) == {r \in images : r.id = imageID}

\* SELECT ... FROM images WHERE account_id = ? AND id = ?
GetImage(accountID, imageID) ==
    {r \in images : r.account_id = accountID /\ r.id = imageID}

\* ORDER BY uploaded, id (both ASC or both DESC) of a set of rows.
RowLess(r1, r2) ==
    \/ StrLess(r1.uploaded, r2.uploaded)
    \/ r1.uploaded = r2.uploaded /\ StrLess(r1.id, r2.id)

RECURSIVE OrderBy(_, _)
OrderBy(rows, order) ==
    IF rows = {} THEN <<>>
    ELSE LET first == CHOOSE r \in rows : \A o \in rows \ {r} :
                          IF order = "ASC" THEN RowLess(r, o) ELSE RowLess(o, r)
         IN <<first>> \o OrderBy(rows \ {first}, order)

\* LIMIT n: a negative n is no limit in SQLite.
Limit(rows, n) ==
    IF n < 0 \/ n >= Len(rows) THEN rows ELSE SubSeq(rows, 1, n)

\* A keyset predicate on the timestamp alone (rows that tie with the cursor's
\* timestamp are left out).
AfterCursorNoTie(r, cursorUploaded, cursorID, order) ==
    IF order = "ASC"
    THEN StrLess(cursorUploaded, r.uploaded)
    ELSE StrLess(r.uploaded, cursorUploaded)

\* A keyset predicate that is not strict on the id (the cursor's row is
\* selected again).
AfterCursorInclusive(r, cursorUploaded, cursorID, order) ==
    IF order = "ASC"
    THEN \/ StrLess(cursorUploaded, r.uploaded)
         \/ r.uploaded = cursorUploaded /\ ~StrLess(r.id, cursorID)
    ELSE \/ StrLess(r.uploaded, cursorUploaded)
         \/ r.uploaded = cursorUploaded /\ ~StrLess(cursorID, r.id)

\* The keyset predicate of a page after the cursor.
AfterCursor(r, cursorUploaded, cursorID, order) ==
    IF order = "ASC"
    THEN \/ StrLess(cursorUploaded, r.uploaded)
         \/ r.uploaded = cursorUploaded /\ StrLess(cursorID, r.id)
    ELSE \/ StrLess(r.uploaded, cursorUploaded)
         \/ r.uploaded = cursorUploaded /\ StrLess(r.id, cursorID)

\* A continuation token set for every page that is not empty.
NextCursorNonEmpty(page, perPage) ==
    IF Len(page) > 0
    THEN LET last == page[Len(page)]
         IN FormatRFC3339Nano(last.Uploaded) \o <<ChPipe>> \o last.ID
    ELSE <<>>

\* The continuation token of a page: set only when the page is full.
NextCursor(page, perPage) ==
    IF Len(page) = perPage
    THEN LET last == page[Len(page)]
         IN FormatRFC3339Nano(last.Uploaded) \o <<ChPipe>> \o last.ID
    ELSE <<>>

SqlOrder(sortOrder) == IF sortOrder \in {"desc", "DESC", "Desc"} THEN "DESC" ELSE "ASC"

\* The rows a keyset query selects out of the candidate rows, as a page.
KeysetPage(rows, cursor, perPage, sortOrder) ==
    LET order == SqlOrder(sortOrder)
        parts == SplitN2(cursor, ChPipe)
    IN IF cursor = <<>>
       THEN LET page == [i \in 1..Len(Limit(OrderBy(rows, order), perPage)) |->
                            scanImage(Limit(OrderBy(rows, order), perPage)[i])]
            IN [err |-> FALSE, images |-> page,
                nextCursor |-> NextCursor(page, perPage)]
       ELSE IF Len(parts) # 2
       THEN [err |-> TRUE, images |-> <<>>, nextCursor |-> <<>>]
       ELSE LET sel == {r \in rows : AfterCursor(r, parts[1], parts[2], order)}
                lim == Limit(OrderBy(sel, order), perPage)
                page == [i \in 1..Len(lim) |-> scanImage(lim[i])]
            IN [err |-> FALSE, images |-> page,
                nextCursor |-> NextCursor(page, perPage)]

\* SQLiteDB.ListImagesV2
ListImagesV2(accountID, cursor, perPage, sortOrder) ==
    KeysetPage({r \in images : r.account_id = accountID}, cursor, perPage, sortOrder)

\* The SQL operator of a filter operator; an unknown one falls back to "=".
OpSQL(op) ==
    CASE op = "eq" -> "="
      [] op = "ne" -> "!="
      [] op = "lt" -> "<"
      [] op = "gt" -> ">"
      [] op \in {"le", "lte"} -> "<="
      [] op \in {"ge", "gte"} -> ">="
      [] OTHER -> "="

\* m.value <op> ? on TEXT values.
SqlCompare(a, opSQL, b) ==
    CASE opSQL = "=" -> a = b
      [] opSQL = "!=" -> a # b
      [] opSQL = "<" -> StrLess(a, b)
      [] opSQL = ">" -> StrLess(b, a)
      [] opSQL = "<=" -> ~StrLess(b, a)
      [] OTHER -> ~StrLess(a, b)

\* SQLiteDB.ListImagesWithFilter: images INNER JOIN image_metadata.
ListImagesWithFilter(accountID, cursor, perPage, sortOrder, key, op, value) ==
    LET valStr == Sprintf(value)
        joined == {r \in images :
                     /\ r.account_id = accountID
                     /\ \E m \in image_metadata :
                          /\ m.account_id = r.account_id
                          /\ m.image_id = r.id
                          /\ m.key = key
                          /\ SqlCompare(m.value, OpSQL(op), valStr)}
    IN KeysetPage(joined, cursor, perPage, sortOrder)

\* SQLiteDB.SetImageMetadata: the rows of the image are replaced by the map's.
SetImageMetadata(md, accountID, imageID, meta) ==
    {m \in md : ~(m.account_id = accountID /\ m.image_id = imageID)}
        \cup {[account_id |-> accountID, image_id |-> imageID, key |-> kv.key,
               value |-> Sprintf(kv.value)] : kv \in meta}

\* FileSystem.Store: the blob of the image is written or replaced.
Store(bs, accountID, imageID, data) ==
    {b \in bs : ~(b.account_id = accountID /\ b.image_id = imageID)}
        \cup {[account_id |-> accountID, image_id |-> imageID, data |-> data]}

\* FileSystem.Delete: the directory of the image is removed, if there is one.
Delete(bs, accountID, imageID) ==
    {b \in bs : ~(b.account_id = accountID /\ b.image_id = imageID)}

\* ------------------------------------------------------------------------
\* Initial state: an empty database and blob store
\* ------------------------------------------------------------------------
NoDU == [id |-> <<>>, account_id |-> <<>>, expiry |-> <<>>, meta |-> {},
         completed |-> FALSE]

NoVariant == [account_id |-> <<>>, id |-> <<>>, fit |-> "", width |-> 0,
              height |-> 0, never_require_signed_urls |-> FALSE]

NoImage == [ID |-> <<>>, AccountID |-> <<>>, Meta |-> {}, RequireSignedURLs |-> FALSE,
            Uploaded |-> 0]

IdleReq == [h |-> "none", pc |-> "idle", acct |-> <<>>, id |-> <<>>,
            du |-> NoDU, data |-> NoData, v |-> NoVariant, img |-> NoImage,
            resp |-> 0, msg |-> ""]

IdleWalk == [phase |-> "idle", acct |-> <<>>, pp |-> <<>>, so |-> "",
             filters |-> {}, sent |-> <<>>, cursor |-> <<>>, page |-> <<>>,
             all |-> <<>>,
             calls |-> 0, code |-> 0, err |-> FALSE, snap |-> {}, live |-> {},
             dirty |-> FALSE]

NoDelivery == [code |-> 0, acct |-> <<>>, img |-> <<>>, variant |-> <<>>,
               sig |-> <<>>, exp |-> <<>>, checked |-> FALSE, ok |-> FALSE,
               format |-> "", out |-> NoData, content |-> [w |-> 0, h |-> 0],
               msg |-> "", read |-> FALSE]

NoAuth == [set |-> FALSE, acct |-> <<>>, img |-> <<>>, variant |-> <<>>,
           sig |-> <<>>, exp |-> <<>>, key |-> <<>>, at |-> 0]

InitStore ==
    /\ images = {}
    /\ image_metadata = {}
    /\ direct_uploads = {}
    /\ variants = {}
    /\ signing_keys = {}
    /\ blobs = {}
    /\ now = 0
    /\ issued = {}
    /\ reqs = [s \in SlotIds |-> IdleReq]
    /\ uploadOK = [u \in ImageUuids |-> 0]
    /\ walk = IdleWalk
    /\ dlv = NoDelivery
    /\ auth = NoAuth

\* Config.EnforceSignedURLs is read from the environment at start.
Init == InitStore /\ enforce \in BOOLEAN

\* ------------------------------------------------------------------------
\* The clock
\* ------------------------------------------------------------------------
Tick ==
    /\ now < MaxNow
    /\ now' = now + 1
    /\ UNCHANGED <<dbVars, issued, enforce, reqs, uploadOK, walk, auth>>
    /\ dlv' = NoDelivery

\* ------------------------------------------------------------------------
\* POST /v1 (Handler.UploadImage)
\* ------------------------------------------------------------------------
\* src: "file", "url" or "none" (neither field); metaRaw: the metadata field, a
\* JSON object or not (an absent field gives the empty map); rs: whether the
\* requireSignedURLs field is "true".
MetaField(m) == [valid |-> TRUE, meta |-> m]
BadMetaField == [valid |-> FALSE, meta |-> {}]

\* What the handler writes.  ids: the values uuid.New() can return to this
\* request; dbOK: whether DB.CreateImage succeeds.  The blob is stored before
\* the metadata field is parsed and before the record is created.
UploadImageWrites(ids, accountID, src, metaRaw, rs, data, dbOK) ==
    IF src = "none"
    THEN UNCHANGED <<images, blobs, issued>>
    ELSE \E imageID \in ids :
           /\ issued' = issued \cup {imageID}
           /\ blobs' = Store(blobs, accountID, imageID, data)
           /\ IF ~metaRaw.valid \/ ~dbOK
              THEN UNCHANGED images
              ELSE LET img == [ID |-> imageID, AccountID |-> accountID,
                               Meta |-> metaRaw.meta, RequireSignedURLs |-> rs,
                               Uploaded |-> now]
                   IN images' = images \cup {imageRow(img)}

\* The handler with a store that works.
UploadImageWith(ids, accountID, src, metaRaw, rs, data) ==
    /\ UploadImageWrites(ids, accountID, src, metaRaw, rs, data, TRUE)
    /\ UNCHANGED <<image_metadata, direct_uploads, variants, signing_keys, now,
                   enforce, reqs, uploadOK, walk, auth>>
    /\ dlv' = NoDelivery

\* The handler's answer: api.BadRequest for a request without file and url
\* and for a metadata field that is not JSON, 500 when the record cannot be
\* created, else 200.
UploadImageAnswer(src, metaRaw, dbOK) ==
    IF src = "none"
    THEN [code |-> 400, msg |-> "missing required field: file or url"]
    ELSE IF ~metaRaw.valid
    THEN [code |-> 400, msg |-> "invalid metadata JSON"]
    ELSE IF ~dbOK
    THEN [code |-> 500, msg |-> "failed to create image record"]
    ELSE [code |-> 200, msg |-> ""]

\* The handler as request s, its answer kept.
UploadImageRequest(s, accountID, src, metaRaw, rs, data, dbOK) ==
    /\ reqs[s].pc = "idle"
    /\ UploadImageWrites(ImageUuids \ issued, accountID, src, metaRaw, rs, data, dbOK)
    /\ LET ans == UploadImageAnswer(src, metaRaw, dbOK)
       IN reqs' = [reqs EXCEPT ![s] =
                     [IdleReq EXCEPT !.h = "UploadImage", !.acct = accountID,
                                     !.resp = ans.code, !.msg = ans.msg]]
    /\ UNCHANGED <<image_metadata, direct_uploads, variants, signing_keys, now,
                   enforce, uploadOK, walk, auth>>
    /\ dlv' = NoDelivery

UploadImage(accountID, src, metaRaw, rs, data) ==
    UploadImageWith(ImageUuids \ issued, accountID, src, metaRaw, rs, data)

\* ------------------------------------------------------------------------
\* DELETE /v1/{image_id} (Handler.DeleteImage)
\* ------------------------------------------------------------------------
DeleteImage(accountID, imageID) ==
    /\ IF GetImage(accountID, imageID) = {}
       THEN UNCHANGED <<images, blobs>>
       ELSE /\ images' = images \ GetImage(accountID, imageID)
            /\ blobs' = Delete(blobs, accountID, imageID)
    /\ UNCHANGED <<image_metadata, direct_uploads, variants, signing_keys, now,
                   issued, enforce, reqs, uploadOK, walk, auth>>
    /\ dlv' = NoDelivery

\* The handler one store call a step.  DB.DeleteImage: 404 when there is no
\* row to delete.
DIDelete(s, accountID, imageID) ==
    /\ reqs[s].pc = "idle"
    /\ IF GetImage(accountID, imageID) = {}
       THEN /\ reqs' = [reqs EXCEPT ![s] =
                          [IdleReq EXCEPT !.h = "DeleteImage", !.acct = accountID,
                                          !.id = imageID, !.resp = 404,
                                          !.msg = "image not found"]]
            /\ UNCHANGED images
       ELSE /\ images' = images \ GetImage(accountID, imageID)
            /\ reqs' = [reqs EXCEPT ![s] =
                          [IdleReq EXCEPT !.h = "DeleteImage", !.pc = "blob",
                                          !.acct = accountID, !.id = imageID]]
    /\ UNCHANGED <<image_metadata, direct_uploads, variants, signing_keys, blobs,
                   now, issued, enforce, uploadOK, walk, auth>>
    /\ dlv' = NoDelivery

\* Store.Delete(accountID, imageID), then the 200 answer.
DIBlob(s) ==
    /\ reqs[s].h = "DeleteImage" /\ reqs[s].pc = "blob"
    /\ blobs' = Delete(blobs, reqs[s].acct, reqs[s].id)
    /\ reqs' = [reqs EXCEPT ![s] =
                  [IdleReq EXCEPT !.h = "DeleteImage", !.acct = reqs[s].acct,
                                  !.id = reqs[s].id, !.resp = 200]]
    /\ UNCHANGED <<images, image_metadata, direct_uploads, variants, signing_keys,
                   now, issued, enforce, uploadOK, walk, auth>>
    /\ dlv' = NoDelivery

\* ------------------------------------------------------------------------
\* POST /v2/direct_upload (Handler.CreateDirectUpload)
\* ------------------------------------------------------------------------
ExpiryMinutes == 30

\* expiryIn: the expiry field, empty when absent.
CreateDirectUpload(accountID, expiryIn, metadata) ==
    /\ IF expiryIn # <<>> /\ ~ParsesRFC3339(expiryIn)
       THEN UNCHANGED <<direct_uploads, issued>>
       ELSE \E uploadID \in ImageUuids \ issued :
              LET expiry == IF expiryIn = <<>>
                            THEN now + ExpiryMinutes * 60 * TicksPerSec
                            ELSE ParseRFC3339(expiryIn)
              IN /\ issued' = issued \cup {uploadID}
                 /\ direct_uploads' = direct_uploads \cup
                        {[id |-> uploadID, account_id |-> accountID,
                          expiry |-> FormatRFC3339(expiry), meta |-> metadata,
                          completed |-> FALSE]}
    /\ UNCHANGED <<images, image_metadata, variants, signing_keys, blobs, now,
                   enforce, reqs, uploadOK, walk, auth>>
    /\ dlv' = NoDelivery

\* ------------------------------------------------------------------------
\* POST /upload/{upload_id} (Handler.HandleDirectUpload), one store call a step
\* ------------------------------------------------------------------------
Respond(s, code) == [reqs EXCEPT ![s] = [IdleReq EXCEPT !.resp = code]]

\* The answer of a request for an upload id: the request is over.
HDURespond(s, uploadID, code, msg) ==
    [reqs EXCEPT ![s] = [IdleReq EXCEPT !.h = "HandleDirectUpload", !.id = uploadID,
                                        !.resp = code, !.msg = msg]]

\* An expiry test that only applies to an upload that is still pending.
UploadExpiredIfPending(du, t) == ~du.completed /\ t > ParseRFC3339(du.expiry)

\* time.Now().UTC().After(du.Expiry)
UploadExpired(du, t) == t > ParseRFC3339(du.expiry)

\* GetDirectUpload, then the expiry, completed and form checks.
HDUGet(s, uploadID, hasFile, data) ==
    /\ reqs[s].pc = "idle"
    /\ LET found == {d \in direct_uploads : d.id = uploadID}
       IN IF found = {}
          THEN reqs' = HDURespond(s, uploadID, 404, "direct upload not found")
          ELSE LET du == CHOOSE d \in found : TRUE
               IN IF UploadExpired(du, now)
                  THEN reqs' = HDURespond(s, uploadID, 400, "upload URL has expired")
                  ELSE IF du.completed
                  THEN reqs' = HDURespond(s, uploadID, 409, "upload already completed")
                  ELSE IF ~hasFile
                  THEN reqs' = HDURespond(s, uploadID, 400,
                                          "missing required field: file")
                  ELSE reqs' = [reqs EXCEPT ![s] =
                           [h |-> "HandleDirectUpload", pc |-> "store",
                            acct |-> du.account_id, id |-> uploadID, du |-> du,
                            data |-> data, v |-> NoVariant, resp |-> 0,
                            msg |-> ""]]
    /\ UNCHANGED <<dbVars, now, issued, enforce, uploadOK, walk, auth>>
    /\ dlv' = NoDelivery

\* Store.Store(accountID, imageID, file)
HDUStore(s) ==
    /\ reqs[s].h = "HandleDirectUpload" /\ reqs[s].pc = "store"
    /\ blobs' = Store(blobs, reqs[s].acct, reqs[s].id, reqs[s].data)
    /\ reqs' = [reqs EXCEPT ![s].pc = "create"]
    /\ UNCHANGED <<images, image_metadata, direct_uploads, variants, signing_keys,
                   now, issued, enforce, uploadOK, walk, auth>>
    /\ dlv' = NoDelivery

\* DB.CreateImage(img): fails on the primary key (account_id, id).
HDUCreate(s) ==
    /\ reqs[s].h = "HandleDirectUpload" /\ reqs[s].pc = "create"
    /\ IF GetImage(reqs[s].acct, reqs[s].id) # {}
       THEN /\ reqs' = HDURespond(s, reqs[s].id, 500,
                                   "failed to create image record")
            /\ UNCHANGED images
       ELSE LET img == [ID |-> reqs[s].id, AccountID |-> reqs[s].acct,
                        Meta |-> reqs[s].du.meta, RequireSignedURLs |-> FALSE,
                        Uploaded |-> now]
            IN /\ images' = images \cup {imageRow(img)}
               /\ reqs' = [reqs EXCEPT ![s].pc =
                             IF reqs[s].du.meta # {} THEN "setmeta" ELSE "complete"]
    /\ UNCHANGED <<image_metadata, direct_uploads, variants, signing_keys, blobs,
                   now, issued, enforce, uploadOK, walk, auth>>
    /\ dlv' = NoDelivery

\* DB.SetImageMetadata(accountID, imageID, du.Metadata)
HDUSetMeta(s) ==
    /\ reqs[s].h = "HandleDirectUpload" /\ reqs[s].pc = "setmeta"
    /\ image_metadata' =
           SetImageMetadata(image_metadata, reqs[s].acct, reqs[s].id, reqs[s].du.meta)
    /\ reqs' = [reqs EXCEPT ![s].pc = "complete"]
    /\ UNCHANGED <<images, direct_uploads, variants, signing_keys, blobs, now,
                   issued, enforce, uploadOK, walk, auth>>
    /\ dlv' = NoDelivery

\* DB.CompleteDirectUpload(uploadID), then the 200 answer.
MaxCount == 2

HDUComplete(s) ==
    /\ reqs[s].h = "HandleDirectUpload" /\ reqs[s].pc = "complete"
    /\ direct_uploads' =
           {IF d.id = reqs[s].id THEN [d EXCEPT !.completed = TRUE] ELSE d :
              d \in direct_uploads}
    /\ uploadOK' = [uploadOK EXCEPT ![reqs[s].id] =
                      IF @ < MaxCount THEN @ + 1 ELSE @]
    /\ reqs' = HDURespond(s, reqs[s].id, 200, "")
    /\ UNCHANGED <<images, image_metadata, variants, signing_keys, blobs, now,
                   issued, enforce, walk, auth>>
    /\ dlv' = NoDelivery

\* ------------------------------------------------------------------------
\* GET /v2 (Handler.ListImagesV2)
\* ------------------------------------------------------------------------
DefaultPerPage == 20
MaxPerPage == 100

\* per_page: the default unless it is a number above zero; capped.
EffPerPage(v) ==
    LET pp == ParseInt(v)
    IN IF v # <<>> /\ pp.ok /\ pp.val > 0
       THEN (IF pp.val > MaxPerPage THEN MaxPerPage ELSE pp.val)
       ELSE DefaultPerPage

\* sort_order: "desc" in any case, else "asc".
EffSortOrder(v) == IF v # "" /\ v \in {"desc", "DESC", "Desc"} THEN "desc" ELSE "asc"

ValidOps == {"eq", "ne", "lt", "gt", "lte", "gte"}
MaxFilters == 5

\* A handler that hands the first filter to the store without a look at the
\* operators.
ListV2AnswerAnyOp(accountID, perPageIn, sortIn, token, filters, f) ==
    LET res == IF filters # {}
               THEN ListImagesWithFilter(accountID, token, EffPerPage(perPageIn),
                                         EffSortOrder(sortIn), f.key, f.op, f.value)
               ELSE ListImagesV2(accountID, token, EffPerPage(perPageIn),
                                 EffSortOrder(sortIn))
    IN IF Cardinality(filters) > 5
       THEN [code |-> 400, images |-> <<>>, token |-> <<>>]
       ELSE IF res.err
       THEN [code |-> 500, images |-> <<>>, token |-> <<>>]
       ELSE [code |-> 200, images |-> res.images, token |-> res.nextCursor]

\* The answer to a request whose metadata[key][op]=value parameters are
\* `filters`, when the map iteration of parseMetadataFilters yields f first
\* (f is only read when there is a filter).
ListV2Answer(accountID, perPageIn, sortIn, token, filters, f) ==
    LET perPage == EffPerPage(perPageIn)
        sortOrder == EffSortOrder(sortIn)
    IN IF \E g \in filters : g.op \notin ValidOps
       THEN [code |-> 400, images |-> <<>>, token |-> <<>>]
       ELSE IF Cardinality(filters) > MaxFilters
       THEN [code |-> 400, images |-> <<>>, token |-> <<>>]
       ELSE LET res == IF filters # {}
                       THEN ListImagesWithFilter(accountID, token, perPage,
                                                 sortOrder, f.key, f.op, f.value)
                       ELSE ListImagesV2(accountID, token, perPage, sortOrder)
            IN IF res.err
               THEN [code |-> 500, images |-> <<>>, token |-> <<>>]
               ELSE [code |-> 200, images |-> res.images, token |-> res.nextCursor]

NoFilter == [key |-> "", op |-> "", value |-> StrVal(<<>>)]

\* A client's cursor walk: the first request carries no continuation token.
AccountRows(accountID) == {r \in images : r.account_id = accountID}

WalkStart(accountID, perPageIn, sortIn, filters) ==
    /\ walk.phase = "idle"
    /\ \E f \in (IF filters = {} THEN {NoFilter} ELSE filters) :
         LET ans == ListV2Answer(accountID, perPageIn, sortIn, <<>>, filters, f)
         IN walk' = [phase |-> IF ans.code = 200 /\ ans.token # <<>>
                               THEN "walking" ELSE "done",
                     acct |-> accountID, pp |-> perPageIn, so |-> sortIn,
                     filters |-> filters, sent |-> <<>>, cursor |-> ans.token,
                     page |-> ans.images, all |-> ans.images, calls |-> 1,
                     code |-> ans.code, err |-> FALSE,
                     snap |-> AccountRows(accountID),
                     live |-> AccountRows(accountID),
                     dirty |-> FALSE]
    /\ UNCHANGED <<dbVars, now, issued, enforce, reqs, uploadOK, auth>>
    /\ dlv' = NoDelivery

\* The next request carries the token of the previous answer.  The walk also
\* notes what it could observe of the account since its first request: whether
\* the rows differ from those at the start (dirty) and which rows have been
\* there at every request (live).
WalkNext ==
    /\ walk.phase = "walking"
    /\ \E f \in (IF walk.filters = {} THEN {NoFilter} ELSE walk.filters) :
         LET ans == ListV2Answer(walk.acct, walk.pp, walk.so, walk.cursor,
                                 walk.filters, f)
             cur == AccountRows(walk.acct)
         IN walk' = [walk EXCEPT
                       !.phase = IF ans.code = 200 /\ ans.token # <<>>
                                 THEN "walking" ELSE "done",
                       !.sent = walk.cursor,
                       !.cursor = ans.token,
                       !.page = ans.images,
                       !.all = walk.all \o ans.images,
                       !.calls = walk.calls + 1,
                       !.code = ans.code,
                       !.live = walk.live \cap cur,
                       !.dirty = walk.dirty \/ cur # walk.snap]
    /\ UNCHANGED <<dbVars, now, issued, enforce, reqs, uploadOK, auth>>
    /\ dlv' = NoDelivery

\* A client that has been told the listing is over (an answer without a token)
\* and sends the token of that answer all the same.
WalkAgain ==
    /\ walk.phase = "done"
    /\ walk.code = 200
    /\ \E f \in (IF walk.filters = {} THEN {NoFilter} ELSE walk.filters) :
         LET ans == ListV2Answer(walk.acct, walk.pp, walk.so, walk.cursor,
                                 walk.filters, f)
             cur == AccountRows(walk.acct)
         IN walk' = [walk EXCEPT
                       !.phase = "over",
                       !.sent = walk.cursor,
                       !.cursor = ans.token,
                       !.page = ans.images,
                       !.all = walk.all \o ans.images,
                       !.calls = walk.calls + 1,
                       !.code = ans.code,
                       !.live = walk.live \cap cur,
                       !.dirty = walk.dirty \/ cur # walk.snap]
    /\ UNCHANGED <<dbVars, now, issued, enforce, reqs, uploadOK, auth>>
    /\ dlv' = NoDelivery

\* A client that sends one request, with whatever continuation token and
\* filters, and keeps the answer.
ListRequest(accountID, perPageIn, sortIn, token, filters) ==
    /\ walk.phase = "idle"
    /\ \E f \in (IF filters = {} THEN {NoFilter} ELSE filters) :
         LET ans == ListV2Answer(accountID, perPageIn, sortIn, token, filters, f)
         IN walk' = [phase |-> "done",
                     acct |-> accountID, pp |-> perPageIn, so |-> sortIn,
                     filters |-> filters, sent |-> token, cursor |-> ans.token,
                     page |-> ans.images, all |-> ans.images, calls |-> 1,
                     code |-> ans.code, err |-> FALSE,
                     snap |-> AccountRows(accountID),
                     live |-> AccountRows(accountID),
                     dirty |-> FALSE]
    /\ UNCHANGED <<dbVars, now, issued, enforce, reqs, uploadOK, auth>>
    /\ dlv' = NoDelivery

\* A caller of the store (Handler.ListImagesV2 is one) that makes one query,
\* filtered by f unless f is NoFilter, and keeps what it returns.  No HTTP
\* answer is made (code 0).
StoreList(accountID, cursor, perPage, sortOrder, f) ==
    /\ walk.phase = "idle"
    /\ LET res == IF f # NoFilter
                  THEN ListImagesWithFilter(accountID, cursor, perPage, sortOrder,
                                            f.key, f.op, f.value)
                  ELSE ListImagesV2(accountID, cursor, perPage, sortOrder)
       IN walk' = [phase |-> "store",
                   acct |-> accountID, pp |-> <<Digit(perPage)>>, so |-> sortOrder,
                   filters |-> {f} \ {NoFilter}, sent |-> cursor,
                   cursor |-> res.nextCursor,
                   page |-> res.images, all |-> res.images, calls |-> 1,
                   code |-> 0, err |-> res.err,
                   snap |-> AccountRows(accountID),
                   live |-> AccountRows(accountID),
                   dirty |-> FALSE]
    /\ UNCHANGED <<dbVars, now, issued, enforce, reqs, uploadOK, auth>>
    /\ dlv' = NoDelivery

\* ------------------------------------------------------------------------
\* POST /v1/variants (Handler.CreateVariant)
\* ------------------------------------------------------------------------
MaxVariantsPerAccount == 100

validFitModes == {"scale-down", "contain", "cover", "crop", "pad"}

\* model.VariantOptions: the fit mode and the target size (metadata is kept and
\* never read); width and height are 0 when the body leaves them out.
Options(fit, width, height) == [Fit |-> fit, Width |-> width, Height |-> height]

\* The row of a model.Variant in the table variants.
variantRow(accountID, id, options, never) ==
    [account_id |-> accountID, id |-> id, fit |-> options.Fit,
     width |-> options.Width, height |-> options.Height,
     never_require_signed_urls |-> never]

\* SELECT ... FROM variants WHERE account_id = ? AND id = ?
GetVariant(accountID, variantID) ==
    {v \in variants : v.account_id = accountID /\ v.id = variantID}

CountVariants(accountID) == Cardinality({v \in variants : v.account_id = accountID})

\* An empty id, an unknown fit mode, a full account and an id already taken
\* (the primary key) are answered with an error and add nothing.
CreateVariant(accountID, id, options, never) ==
    /\ IF \/ id = <<>>
          \/ options.Fit \notin validFitModes
          \/ CountVariants(accountID) >= MaxVariantsPerAccount
          \/ GetVariant(accountID, id) # {}
       THEN UNCHANGED variants
       ELSE variants' = variants \cup
                {variantRow(accountID, id, options, never)}
    /\ UNCHANGED <<images, image_metadata, direct_uploads, signing_keys, blobs, now,
                   issued, enforce, reqs, uploadOK, walk, auth>>
    /\ dlv' = NoDelivery

\* The same handler, one store call a step. The body checks and
\* DB.CountVariants:
CVCount(s, accountID, id, options, never) ==
    /\ reqs[s].pc = "idle"
    /\ reqs' =
         IF id = <<>>
         THEN [reqs EXCEPT ![s] = [IdleReq EXCEPT !.h = "CreateVariant", !.resp = 400,
                                       !.msg = "variant id is required"]]
         ELSE IF options.Fit \notin validFitModes
         THEN [reqs EXCEPT ![s] = [IdleReq EXCEPT !.h = "CreateVariant", !.resp = 400,
                                       !.msg = "invalid fit mode"]]
         ELSE IF CountVariants(accountID) >= MaxVariantsPerAccount
         THEN [reqs EXCEPT ![s] = [IdleReq EXCEPT !.h = "CreateVariant", !.resp = 400,
                                       !.msg = "maximum number of variants reached"]]
         ELSE [reqs EXCEPT ![s] =
                 [IdleReq EXCEPT !.h = "CreateVariant", !.pc = "insert",
                                 !.acct = accountID,
                                 !.v = variantRow(accountID, id, options, never)]]
    /\ UNCHANGED <<dbVars, now, issued, enforce, uploadOK, walk, auth>>
    /\ dlv' = NoDelivery

\* DB.CreateVariant(variant): 409 on the primary key, else the 200 answer.
CVInsert(s) ==
    /\ reqs[s].h = "CreateVariant" /\ reqs[s].pc = "insert"
    /\ IF GetVariant(reqs[s].acct, reqs[s].v.id) # {}
       THEN /\ UNCHANGED variants
            /\ reqs' = [reqs EXCEPT ![s] =
                          [IdleReq EXCEPT !.h = "CreateVariant", !.resp = 409,
                                          !.msg = "variant already exists"]]
       ELSE /\ variants' = variants \cup {reqs[s].v}
            /\ reqs' = [reqs EXCEPT ![s] =
                          [IdleReq EXCEPT !.h = "CreateVariant", !.resp = 200]]
    /\ UNCHANGED <<images, image_metadata, direct_uploads, signing_keys, blobs, now,
                   issued, enforce, uploadOK, walk, auth>>
    /\ dlv' = NoDelivery

\* ------------------------------------------------------------------------
\* PATCH /v1/{image_id} (Handler.UpdateImage), one store call a step
\* ------------------------------------------------------------------------
\* The JSON body: valid or not; the metadata and requireSignedURLs members,
\* each present or absent.
PatchBody(hasMeta, meta, hasRS, rs) ==
    [valid |-> TRUE, hasMeta |-> hasMeta, meta |-> meta, hasRS |-> hasRS, rs |-> rs]
BadPatchBody == [valid |-> FALSE, hasMeta |-> FALSE, meta |-> {}, hasRS |-> FALSE,
                 rs |-> FALSE]

\* DB.GetImage, the body, and the members the body carries set on the record
\* that was read.
UIGet(s, accountID, imageID, body) ==
    /\ reqs[s].pc = "idle"
    /\ reqs' =
         IF GetImage(accountID, imageID) = {}
         THEN [reqs EXCEPT ![s] = [IdleReq EXCEPT !.h = "UpdateImage", !.resp = 404,
                                                  !.msg = "image not found"]]
         ELSE IF ~body.valid
         THEN [reqs EXCEPT ![s] = [IdleReq EXCEPT !.h = "UpdateImage", !.resp = 400,
                                                  !.msg = "invalid JSON body"]]
         ELSE LET img == scanImage(CHOOSE r \in GetImage(accountID, imageID) : TRUE)
              IN [reqs EXCEPT ![s] =
                    [IdleReq EXCEPT !.h = "UpdateImage", !.pc = "update",
                       !.acct = accountID, !.id = imageID,
                       !.img = [img EXCEPT
                                  !.Meta = IF body.hasMeta THEN body.meta ELSE @,
                                  !.RequireSignedURLs =
                                      IF body.hasRS THEN body.rs ELSE @]]]
    /\ UNCHANGED <<dbVars, now, issued, enforce, uploadOK, walk, auth>>
    /\ dlv' = NoDelivery

\* UPDATE images SET filename, meta, require_signed_urls WHERE account_id = ?
\* AND id = ?
UpdateImageRows(rows, img) ==
    {IF r.account_id = img.AccountID /\ r.id = img.ID
     THEN [r EXCEPT !.meta = img.Meta, !.require_signed_urls = img.RequireSignedURLs]
     ELSE r : r \in rows}

\* DB.UpdateImage: 500 when no row was updated, else 200.
UIUpdate(s) ==
    /\ reqs[s].h = "UpdateImage" /\ reqs[s].pc = "update"
    /\ LET img == reqs[s].img
       IN IF GetImage(img.AccountID, img.ID) = {}
          THEN /\ UNCHANGED images
               /\ reqs' = [reqs EXCEPT ![s] =
                             [IdleReq EXCEPT !.h = "UpdateImage", !.resp = 500,
                                             !.msg = "failed to update image"]]
          ELSE /\ images' = UpdateImageRows(images, img)
               /\ reqs' = [reqs EXCEPT ![s] =
                             [IdleReq EXCEPT !.h = "UpdateImage", !.resp = 200]]
    /\ UNCHANGED <<image_metadata, direct_uploads, variants, signing_keys, blobs, now,
                   issued, enforce, uploadOK, walk, auth>>
    /\ dlv' = NoDelivery

\* ------------------------------------------------------------------------
\* PATCH and DELETE /v1/variants/{variant_id}
\* ------------------------------------------------------------------------
\* SELECT ... FROM variants WHERE account_id = ? ORDER BY id ASC, as the map by
\* id the handler answers with.
ListVariants(accountID) == {v \in variants : v.account_id = accountID}

\* Handler.UpdateVariant: DB.GetVariant, the members of the body that are set
\* (a fit "", a width 0 and a height 0 are members left out), DB.UpdateVariant.
UpdateVariant(accountID, variantID, hasOptions, options, hasNever, never) ==
    /\ IF \/ GetVariant(accountID, variantID) = {}
          \/ hasOptions /\ options.Fit # "" /\ options.Fit \notin validFitModes
       THEN UNCHANGED variants
       ELSE LET existing == CHOOSE v \in GetVariant(accountID, variantID) : TRUE
                updated == [existing EXCEPT
                              !.fit = IF hasOptions /\ options.Fit # ""
                                      THEN options.Fit ELSE @,
                              !.width = IF hasOptions /\ options.Width # 0
                                        THEN options.Width ELSE @,
                              !.height = IF hasOptions /\ options.Height # 0
                                         THEN options.Height ELSE @,
                              !.never_require_signed_urls =
                                  IF hasNever THEN never ELSE @]
            IN variants' = {IF v.account_id = updated.account_id /\ v.id = updated.id
                            THEN updated ELSE v : v \in variants}
    /\ UNCHANGED <<images, image_metadata, direct_uploads, signing_keys, blobs, now,
                   issued, enforce, reqs, uploadOK, walk, auth>>
    /\ dlv' = NoDelivery

\* Handler.DeleteVariant: DELETE FROM variants WHERE account_id = ? AND id = ?
DeleteVariant(accountID, variantID) ==
    /\ variants' = {v \in variants : ~(v.account_id = accountID /\ v.id = variantID)}
    /\ UNCHANGED <<images, image_metadata, direct_uploads, signing_keys, blobs, now,
                   issued, enforce, reqs, uploadOK, walk, auth>>
    /\ dlv' = NoDelivery

\* ------------------------------------------------------------------------
\* PUT /v1/keys/{signing_key_name} (Handler.CreateSigningKey)
\* ------------------------------------------------------------------------
\* A key lookup without the account: the keys of every account.
SigningKeysOfAll(accountID) == signing_keys

\* A key lookup that also finds the keys deleted since: every value a key was
\* ever given.
SigningKeysEverIssued(accountID) ==
    {[account_id |-> accountID, name |-> "", value |-> v] : v \in issued \cap KeyUuids}

\* SELECT ... FROM signing_keys WHERE account_id = ?
ListSigningKeys(accountID) == {k \in signing_keys : k.account_id = accountID}

\* INSERT INTO signing_keys: fails on the primary key (account_id, name).
InsertSigningKey(keys, accountID, name, value) ==
    IF \E k \in keys : k.account_id = accountID /\ k.name = name
    THEN keys
    ELSE keys \cup {[account_id |-> accountID, name |-> name, value |-> value]}

\* The value is generated before the insert, whether or not the insert succeeds.
CreateSigningKey(accountID, keyName) ==
    /\ IF keyName = ""
       THEN UNCHANGED <<signing_keys, issued>>
       ELSE \E value \in KeyUuids \ issued :
              /\ issued' = issued \cup {value}
              /\ signing_keys' = InsertSigningKey(signing_keys, accountID, keyName, value)
    /\ UNCHANGED <<images, image_metadata, direct_uploads, variants, blobs, now,
                   enforce, reqs, uploadOK, walk, auth>>
    /\ dlv' = NoDelivery

\* ------------------------------------------------------------------------
\* DELETE /v1/keys/{signing_key_name} (Handler.DeleteSigningKey), one store
\* call a step
\* ------------------------------------------------------------------------
\* DB.DeleteSigningKey: 404 when no row was deleted.
DSKDelete(s, accountID, keyName) ==
    /\ reqs[s].pc = "idle"
    /\ IF \E k \in signing_keys : k.account_id = accountID /\ k.name = keyName
       THEN /\ signing_keys' =
                  {k \in signing_keys : ~(k.account_id = accountID /\ k.name = keyName)}
            /\ reqs' = [reqs EXCEPT ![s] =
                          [IdleReq EXCEPT !.h = "DeleteSigningKey", !.pc = "list",
                                          !.acct = accountID]]
       ELSE /\ reqs' = Respond(s, 404)
            /\ UNCHANGED signing_keys
    /\ UNCHANGED <<images, image_metadata, direct_uploads, variants, blobs, now,
                   issued, enforce, uploadOK, walk, auth>>
    /\ dlv' = NoDelivery

\* DB.ListSigningKeys(accountID): a default key is created when none remains.
DSKList(s) ==
    /\ reqs[s].h = "DeleteSigningKey" /\ reqs[s].pc = "list"
    /\ reqs' = [reqs EXCEPT ![s].pc =
                  IF ListSigningKeys(reqs[s].acct) = {} THEN "create" ELSE "respond"]
    /\ UNCHANGED <<dbVars, now, issued, enforce, uploadOK, walk, auth>>
    /\ dlv' = NoDelivery

\* DB.CreateSigningKey(defaultKey) with a fresh value; its error is dropped.
DSKCreate(s) ==
    /\ reqs[s].h = "DeleteSigningKey" /\ reqs[s].pc = "create"
    /\ \E value \in KeyUuids \ issued :
         /\ issued' = issued \cup {value}
         /\ signing_keys' =
                InsertSigningKey(signing_keys, reqs[s].acct, "default", value)
    /\ reqs' = [reqs EXCEPT ![s].pc = "respond"]
    /\ UNCHANGED <<images, image_metadata, direct_uploads, variants, blobs, now,
                   enforce, uploadOK, walk, auth>>
    /\ dlv' = NoDelivery

\* The 200 answer: the request completes.
DSKRespond(s) ==
    /\ reqs[s].h = "DeleteSigningKey" /\ reqs[s].pc = "respond"
    /\ reqs' = [reqs EXCEPT ![s] =
                  [IdleReq EXCEPT !.h = "DeleteSigningKey", !.acct = reqs[s].acct,
                                  !.resp = 200]]
    /\ UNCHANGED <<dbVars, now, issued, enforce, uploadOK, walk, auth>>
    /\ dlv' = NoDelivery

\* ------------------------------------------------------------------------
\* GET /cdn/{account_id}/{image_id}/{variant_name} (Handler.DeliverImage)
\* ------------------------------------------------------------------------
\* encoding/hex: two digits a byte; decoding takes either case and fails on an
\* odd length or on a character that is no hex digit.
HexDigit(n) == IF n < 10 THEN Ch0 + n ELSE 97 + (n - 10)

RECURSIVE HexEncode(_)
HexEncode(bytes) ==
    IF bytes = <<>> THEN <<>>
    ELSE <<HexDigit(Head(bytes) \div 16), HexDigit(Head(bytes) % 16)>>
             \o HexEncode(Tail(bytes))

Nibble(c) ==
    IF IsDigit(c) THEN c - Ch0
    ELSE IF c >= 97 /\ c <= 102 THEN c - 87
    ELSE IF c >= 65 /\ c <= 70 THEN c - 55
    ELSE 0 - 1

HexDecode(s) ==
    LET ok == Len(s) % 2 = 0 /\ \A i \in 1..Len(s) : Nibble(s[i]) >= 0
    IN [ok |-> ok,
        bytes |-> IF ~ok THEN <<>>
                  ELSE [i \in 1..(Len(s) \div 2) |->
                          Nibble(s[2 * i - 1]) * 16 + Nibble(s[2 * i])]]

\* HMAC-SHA256 as an ideal MAC: the tag determines the key and the message.
HMAC(keyValue, message) == keyValue \o <<0>> \o message

\* fmt.Sprintf("/cdn/%s/%s/%s", accountID, imageID, variantName)
DeliverPath(accountID, imageID, variantName) ==
    <<ChSlash, 99, 100, 110, ChSlash>> \o accountID \o <<ChSlash>> \o imageID
        \o <<ChSlash>> \o variantName

\* An expiry check that also turns down a request made at the second of exp.
ExpiredAtExp(t, expUnix) == Unix(t) >= expUnix

\* time.Now().Unix() > expUnix
Expired(t, expUnix) == Unix(t) > expUnix

\* Handler.verifySignature
verifySignature(accountID, imageID, variantName, sigHex, expStr) ==
    IF sigHex = <<>> \/ expStr = <<>> THEN FALSE
    ELSE IF ~ParseInt(expStr).ok THEN FALSE
    ELSE IF Expired(now, ParseInt(expStr).val) THEN FALSE
    ELSE IF ~HexDecode(sigHex).ok THEN FALSE
    ELSE IF ListSigningKeys(accountID) = {} THEN FALSE
    ELSE LET message == DeliverPath(accountID, imageID, variantName) \o expStr
         IN \E key \in ListSigningKeys(accountID) :
              HexDecode(sigHex).bytes = HMAC(key.value, message)

\* An enforcement test that overlooks the variant's neverRequireSignedURLs.
SignatureRequiredAnyVariant(enforced, img, variant) ==
    enforced /\ img.RequireSignedURLs

\* Config.EnforceSignedURLs && img.RequireSignedURLs && !variant.NeverRequireSignedURLs
SignatureRequired(enforced, img, variant) ==
    enforced /\ img.RequireSignedURLs /\ ~variant.never_require_signed_urls

\* ------------------------------------------------------------------------
\* imageproc
\* ------------------------------------------------------------------------
Min(a, b) == IF a < b THEN a ELSE b
Max(a, b) == IF a > b THEN a ELSE b

\* math.Floor(a/b + 0.5) and int(a/b + 0.5), for a >= 0 and b > 0.
RoundHalfUp(a, b) == (2 * a + b) \div (2 * b)

\* bytes.Contains
Contains(s, sub) ==
    \E i \in 1..(Len(s) - Len(sub) + 1) : SubSeq(s, i, i + Len(sub) - 1) = sub

HasPrefix(s, sig) == Len(s) >= Len(sig) /\ SubSeq(s, 1, Len(sig)) = sig

\* The number of leading bytes IsSVG looks at.
SvgHeaderLimit == 512

\* An SVG test that looks at the first bytes only after the raster signatures
\* have been tried.
IsSVGUnlessRaster(data) ==
    /\ ~HasPrefix(data.bytes, JpegSig) /\ ~HasPrefix(data.bytes, PngSig)
    /\ Contains(SubSeq(data.bytes, 1, Min(SvgHeaderLimit, Len(data.bytes))), SvgMarker)

\* IsSVG
IsSVG(data) ==
    IF Len(data.bytes) = 0 THEN FALSE
    ELSE LET header == SubSeq(data.bytes, 1, Min(SvgHeaderLimit, Len(data.bytes)))
         IN \/ Contains(header, SvgMarker)
            \/ Contains(header, XmlMarker) /\ Contains(header, SvgMarker)

\* DetectFormat
DetectFormat(data) ==
    LET d == data.bytes
    IN IF Len(d) >= 3 /\ SubSeq(d, 1, 3) = JpegSig THEN "jpeg"
       ELSE IF Len(d) >= 8 /\ SubSeq(d, 1, 8) = PngSig THEN "png"
       ELSE IF Len(d) >= 6 /\ SubSeq(d, 1, 3) = SubSeq(GifSig, 1, 3) THEN "gif"
       ELSE IF Len(d) >= 12 /\ SubSeq(d, 1, 4) = SubSeq(WebpSig, 1, 4)
                            /\ SubSeq(d, 9, 12) = SubSeq(WebpSig, 9, 12) THEN "webp"
       ELSE ""

\* A decoded image: its width and height, and the width and height of the
\* part of it that shows the picture (all of it, unless it was pasted on a
\* canvas).
Img(w, h) == [w |-> w, h |-> h, cw |-> w, ch |-> h]

\* &image.NRGBA{}
EmptyImage == Img(0, 0)

\* image.Decode with the decoders of image/gif, image/jpeg and image/png.
Decodes(data) ==
    DetectFormat(data) \in {"jpeg", "png", "gif"} /\ data.w > 0 /\ data.h > 0

\* imaging.Resize: a dimension 0 keeps the aspect ratio, with 1 pixel at least.
imagingResize(img, width, height) ==
    IF width < 0 \/ height < 0 THEN EmptyImage
    ELSE IF width = 0 /\ height = 0 THEN EmptyImage
    ELSE IF img.w <= 0 \/ img.h <= 0 THEN EmptyImage
    ELSE LET dstW == IF width = 0
                     THEN Max(1, RoundHalfUp(height * img.w, img.h)) ELSE width
             dstH == IF height = 0
                     THEN Max(1, RoundHalfUp(dstW * img.h, img.w)) ELSE height
         IN Img(dstW, dstH)

\* imaging.Fit: scaled down to fit the bounding box; an image that fits is
\* returned as it is.
imagingFit(img, width, height) ==
    IF width <= 0 \/ height <= 0 THEN EmptyImage
    ELSE IF img.w <= 0 \/ img.h <= 0 THEN EmptyImage
    ELSE IF img.w <= width /\ img.h <= height THEN Img(img.w, img.h)
    ELSE IF img.w * height > width * img.h
    THEN imagingResize(img, width, (width * img.h) \div img.w)
    ELSE imagingResize(img, (height * img.w) \div img.h, height)

\* imaging.CropCenter: the intersection of the centred rectangle with the
\* image (width and height not negative).
imagingCropCenter(img, width, height) ==
    IF Min(width, img.w) <= 0 \/ Min(height, img.h) <= 0 THEN EmptyImage
    ELSE Img(Min(width, img.w), Min(height, img.h))

\* imaging.Fill: crop then resize for sources of 100 pixels or more on both
\* axes, resize then crop for the others.
imagingFill(img, width, height) ==
    IF width <= 0 \/ height <= 0 THEN EmptyImage
    ELSE IF img.w <= 0 \/ img.h <= 0 THEN EmptyImage
    ELSE IF img.w = width /\ img.h = height THEN Img(img.w, img.h)
    ELSE IF img.w >= 100 /\ img.h >= 100
    THEN LET tmp == IF img.w * height < width * img.h
                    THEN imagingCropCenter(img, img.w,
                             Max(1, RoundHalfUp(img.w * height, width)))
                    ELSE imagingCropCenter(img,
                             Max(1, RoundHalfUp(img.h * width, height)), img.h)
         IN imagingResize(tmp, width, height)
    ELSE LET tmp == IF img.w * height < width * img.h
                    THEN imagingResize(img, width, 0)
                    ELSE imagingResize(img, 0, height)
         IN imagingCropCenter(tmp, width, height)

\* imaging.New
imagingNew(width, height) ==
    IF width <= 0 \/ height <= 0 THEN EmptyImage
    ELSE [w |-> width, h |-> height, cw |-> 0, ch |-> 0]

\* imaging.PasteCenter: the background with the image drawn at its centre.
imagingPasteCenter(background, img) ==
    [background EXCEPT !.cw = Min(img.w, background.w),
                       !.ch = Min(img.h, background.h)]

\* A scale-down that resizes to the bounding box whether or not the image fits.
fitScaleDownAlways(img, origW, origH, targetW, targetH) ==
    imagingResize(img, Min(targetW, (targetH * origW) \div origH),
                       Min(targetH, (targetW * origH) \div origW))

\* fitScaleDown
fitScaleDown(img, origW, origH, targetW, targetH) ==
    IF origW <= targetW /\ origH <= targetH THEN img
    ELSE imagingFit(img, targetW, targetH)

\* A contain that never enlarges.
fitContainNoEnlarge(img, targetW, targetH) == imagingFit(img, targetW, targetH)

\* fitContain: scale is the smaller of targetW/origW and targetH/origH.
fitContain(img, targetW, targetH) ==
    LET origW == img.w
        origH == img.h
        byWidth == targetW * origH <= targetH * origW
        newW == IF byWidth THEN RoundHalfUp(origW * targetW, origW)
                ELSE RoundHalfUp(origW * targetH, origH)
        newH == IF byWidth THEN RoundHalfUp(origH * targetW, origW)
                ELSE RoundHalfUp(origH * targetH, origH)
    IN imagingResize(img, Max(1, newW), Max(1, newH))

\* A cover that resizes to cover the target and does not crop.
fitCoverNoCrop(img, targetW, targetH) ==
    IF img.w * targetH < targetW * img.h
    THEN imagingResize(img, targetW, 0)
    ELSE imagingResize(img, 0, targetH)

\* fitCover
fitCover(img, targetW, targetH) == imagingFill(img, targetW, targetH)

\* fitCrop
fitCrop(img, targetW, targetH) == imagingCropCenter(img, targetW, targetH)

\* A pad that stretches the image over the whole canvas.
fitPadStretched(img, targetW, targetH) ==
    imagingPasteCenter(imagingNew(targetW, targetH),
                       imagingResize(img, targetW, targetH))

\* fitPad
fitPad(img, targetW, targetH) ==
    imagingPasteCenter(imagingNew(targetW, targetH),
                       imagingFit(img, targetW, targetH))

\* applyFit: a width or height of 0 is the original dimension.
applyFit(img, opts) ==
    LET origW == img.w
        origH == img.h
        targetW == IF opts.Width = 0 THEN origW ELSE opts.Width
        targetH == IF opts.Height = 0 THEN origH ELSE opts.Height
    IN CASE opts.Fit = "scale-down" -> fitScaleDown(img, origW, origH, targetW, targetH)
         [] opts.Fit = "contain" -> fitContain(img, targetW, targetH)
         [] opts.Fit = "cover" -> fitCover(img, targetW, targetH)
         [] opts.Fit = "crop" -> fitCrop(img, targetW, targetH)
         [] opts.Fit = "pad" -> fitPad(img, targetW, targetH)
         [] OTHER -> fitScaleDown(img, origW, origH, targetW, targetH)

\* encodeImage: the bytes of the encoder for the format (the signature, and a
\* byte that stands for what the encoder writes after it).
encodeImage(img, format) ==
    CASE format = "jpeg" -> [err |-> FALSE, out |-> Data(JpegSig \o <<219>>, img.w, img.h)]
      [] format = "png" -> [err |-> FALSE, out |-> Data(PngSig \o <<73>>, img.w, img.h)]
      [] format = "gif" -> [err |-> FALSE, out |-> Data(GifSig \o <<44>>, img.w, img.h)]
      [] OTHER -> [err |-> TRUE, out |-> NoData]

\* Transform: the bytes and the format it returns, or an error.
Transform(data, opts) ==
    IF IsSVG(data)
    THEN [err |-> FALSE, format |-> "svg", out |-> data, content |-> [w |-> 0, h |-> 0]]
    ELSE IF DetectFormat(data) = "gif"
    THEN [err |-> FALSE, format |-> "gif", out |-> data, content |-> [w |-> 0, h |-> 0]]
    ELSE IF DetectFormat(data) = "" \/ ~Decodes(data)
    THEN [err |-> TRUE, format |-> "", out |-> NoData, content |-> [w |-> 0, h |-> 0]]
    ELSE LET img == applyFit(Img(data.w, data.h), opts)
             enc == encodeImage(img, DetectFormat(data))
         IN IF enc.err
            THEN [err |-> TRUE, format |-> "", out |-> NoData,
                  content |-> [w |-> 0, h |-> 0]]
            ELSE [err |-> FALSE, format |-> DetectFormat(data), out |-> enc.out,
                  content |-> [w |-> img.cw, h |-> img.ch]]

\* FileSystem.Retrieve
Retrieve(accountID, imageID) ==
    {b \in blobs : b.account_id = accountID /\ b.image_id = imageID}

\* A handler that opens the blob before it verifies the signature.
deliverOutcomeBlobFirst(imgFound, varFound, required, verified, blobFound, trErr) ==
    IF ~imgFound THEN [code |-> 404, msg |-> "image not found", read |-> FALSE]
    ELSE IF ~varFound THEN [code |-> 404, msg |-> "variant not found", read |-> FALSE]
    ELSE IF ~blobFound THEN [code |-> 404, msg |-> "image not found", read |-> TRUE]
    ELSE IF required /\ ~verified THEN [code |-> 403, msg |-> "forbidden", read |-> TRUE]
    ELSE IF trErr THEN [code |-> 500, msg |-> "internal server error", read |-> TRUE]
    ELSE [code |-> 200, msg |-> "", read |-> TRUE]

\* The checks of DeliverImage in the order it makes them: the status and the
\* text of the answer, and whether Store.Retrieve was called.
deliverOutcome(imgFound, varFound, required, verified, blobFound, trErr) ==
    IF ~imgFound THEN [code |-> 404, msg |-> "image not found", read |-> FALSE]
    ELSE IF ~varFound THEN [code |-> 404, msg |-> "variant not found", read |-> FALSE]
    ELSE IF required /\ ~verified THEN [code |-> 403, msg |-> "forbidden", read |-> FALSE]
    ELSE IF ~blobFound THEN [code |-> 404, msg |-> "image not found", read |-> TRUE]
    ELSE IF trErr THEN [code |-> 500, msg |-> "internal server error", read |-> TRUE]
    ELSE [code |-> 200, msg |-> "", read |-> TRUE]

\* The whole handler. remember: the client keeps the URL once it is authorized.
DeliverImage(accountID, imageID, variantName, sigHex, expStr, remember) ==
    LET imgs == GetImage(accountID, imageID)
        vs == GetVariant(accountID, variantName)
        found == imgs # {} /\ vs # {}
        checked == found /\ SignatureRequired(enforce,
                                scanImage(CHOOSE r \in imgs : TRUE),
                                CHOOSE v \in vs : TRUE)
        ok == checked /\ verifySignature(accountID, imageID, variantName, sigHex, expStr)
        rc == Retrieve(accountID, imageID)
        variant == CHOOSE v \in vs : TRUE
        tr == Transform((CHOOSE b \in rc : TRUE).data,
                        Options(variant.fit, variant.width, variant.height))
        res == deliverOutcome(imgs # {}, vs # {}, checked, ok, rc # {}, tr.err)
        code == res.code
    IN /\ dlv' = [code |-> code, acct |-> accountID, img |-> imageID,
                  variant |-> variantName, sig |-> sigHex, exp |-> expStr,
                  checked |-> checked, ok |-> ok,
                  format |-> IF code = 200 THEN tr.format ELSE "",
                  out |-> IF code = 200 THEN tr.out ELSE NoData,
                  content |-> IF code = 200 THEN tr.content ELSE [w |-> 0, h |-> 0],
                  msg |-> res.msg, read |-> res.read]
       /\ auth' = IF remember /\ ok /\ ~auth.set
                  THEN [set |-> TRUE, acct |-> accountID, img |-> imageID,
                        variant |-> variantName, sig |-> sigHex, exp |-> expStr,
                        key |-> (CHOOSE k \in ListSigningKeys(accountID) :
                                   HexDecode(sigHex).bytes =
                                     HMAC(k.value, DeliverPath(accountID, imageID,
                                                       variantName) \o expStr)).value,
                        at |-> now]
                  ELSE auth
       /\ UNCHANGED <<dbVars, now, issued, enforce, reqs, uploadOK, walk>>

\* ------------------------------------------------------------------------
\* The listing specification: uploads and deletions in two accounts, in any
\* interleaving with a client that walks the V2 listing of the first account
\* ------------------------------------------------------------------------
PerPageInputs == {<<>>, <<Digit(0)>>, <<Digit(1)>>, <<Digit(2)>>,
                  <<Digit(1), Digit(0), Digit(1)>>}
SortInputs == {"", "desc"}

InitList == InitStore /\ enforce = FALSE

NextList ==
    \/ Tick
    \/ \E a \in Accounts : UploadImage(a, "file", MetaField({}), FALSE, JpegData)
    \/ \E a \in Accounts, i \in issued : DeleteImage(a, i)
    \/ \E pp \in PerPageInputs, so \in SortInputs : WalkStart(AcctA, pp, so, {})
    \/ WalkNext

SpecList == InitList /\ [][NextList]_vars

\* ------------------------------------------------------------------------
\* The filter specification: images with metadata come from uploads and from
\* direct uploads (the one request that writes image_metadata); once the
\* client starts its walk, filtered or not, the store is left alone
\* ------------------------------------------------------------------------
FilterPerPageInputs == {<<>>, <<Digit(1)>>, <<Digit(2)>>}
FilterInputs ==
    {{}, {[key |-> MetaKey, op |-> "eq", value |-> StrVal(<<Digit(1)>>)]},
         {[key |-> MetaKey, op |-> "ne", value |-> StrVal(<<Digit(1)>>)]}}
UploadMetas == {{}, {[key |-> MetaKey, value |-> StrVal(<<Digit(1)>>)]}}
DirectMetas == Metas \ {{}}
\* An expiry field after the last tick of the clock.
FarExpiry == FormatRFC3339((Unix(MaxNow) + 1) * TicksPerSec)

Quiet == walk.phase = "idle"

NextFilter ==
    \/ Quiet /\ Tick
    \/ Quiet /\ \E m \in UploadMetas :
                   UploadImage(AcctA, "file", MetaField(m), FALSE, JpegData)
    \/ Quiet /\ \E m \in DirectMetas : CreateDirectUpload(AcctA, FarExpiry, m)
    \/ Quiet /\ \E u \in {d.id : d \in direct_uploads} : HDUGet(1, u, TRUE, JpegData)
    \/ Quiet /\ HDUStore(1)
    \/ Quiet /\ HDUCreate(1)
    \/ Quiet /\ HDUSetMeta(1)
    \/ Quiet /\ HDUComplete(1)
    \/ \E pp \in FilterPerPageInputs, fs \in FilterInputs :
          WalkStart(AcctA, pp, "", fs)
    \/ WalkNext

SpecFilter == InitList /\ [][NextFilter]_vars

\* ------------------------------------------------------------------------
\* The delivery specification: one image, one variant and signing keys of two
\* accounts, in any interleaving with GET /cdn requests of the first account
\* ------------------------------------------------------------------------
\* The variant name "v".
VarV == <<118>>

\* The seconds of the model's clock, as the exp of a request.
ExpSeconds == {FormatInt(Unix(t)) : t \in 0..MaxNow}

ToUpper(s) == [i \in 1..Len(s) |-> IF s[i] >= 97 /\ s[i] <= 122 THEN s[i] - 32 ELSE s[i]]

\* The signature a holder of the key value computes for a path and an exp.
Sign(keyValue, accountID, imageID, variantName, expStr) ==
    HexEncode(HMAC(keyValue, DeliverPath(accountID, imageID, variantName) \o expStr))

\* The (sig, exp) parameters of the requests for a path: a signature of the
\* path and an exp under the key value "x" (which uuid.New() may or may not
\* have given to a key), sent with the same or another exp; and,
\* with one such signature, exp absent or not a number ("x"), sig absent, not
\* hex ("zz"), cut to an odd length, in upper case, or with its last digit
\* changed.
SigExpInputs(accountID, imageID, variantName) ==
    LET last == FormatInt(Unix(MaxNow))
        one == Sign(<<120>>, accountID, imageID, variantName, last)
    IN {<<Sign(<<120>>, accountID, imageID, variantName, e1), e2>> :
           e1 \in ExpSeconds, e2 \in ExpSeconds}
         \cup {<<one, <<>> >>, <<one, <<120>> >>, << <<>>, last>>, << <<>>, <<>> >>,
               << <<122, 122>>, last>>, <<SubSeq(one, 1, Len(one) - 1), last>>,
               <<ToUpper(one), last>>,
               <<[one EXCEPT ![Len(one)] = HexDigit((Nibble(@) + 1) % 16)], last>>}

\* The image ids of the requests: the account's images and, when it has none,
\* an id that names no image.
ImageInputs(accountID) ==
    IF \E r \in images : r.account_id = accountID
    THEN {r.id : r \in {x \in images : x.account_id = accountID}}
    ELSE {<<97>>}

NextDeliver ==
    \/ Tick
    \/ images = {} /\ now = 0 /\ \E rs \in BOOLEAN, data \in {JpegData, TextData} :
                        UploadImage(AcctA, "file", MetaField({}), rs, data)
    \/ \E never \in BOOLEAN : CreateVariant(AcctA, VarV, Options("cover", 0, 0), never)
    \/ \E a \in Accounts : CreateSigningKey(a, "k")
    \/ \E i \in ImageInputs(AcctA) : \E se \in SigExpInputs(AcctA, i, VarV) :
         DeliverImage(AcctA, i, VarV, se[1], se[2], FALSE)

SpecDeliver == Init /\ [][NextDeliver]_vars

\* ------------------------------------------------------------------------
\* The replay specification: enforcement on, an image that requires signed
\* URLs, keys created and deleted, and a client that keeps the first signed
\* URL it saw authorized and sends it again
\* ------------------------------------------------------------------------
InitReplay == InitStore /\ enforce = TRUE

\* Requests signed for their own exp, and a request without parameters.
ReplayInputs(accountID, imageID, variantName) ==
    {<<Sign(k, accountID, imageID, variantName, e), e>> :
        k \in KeyUuids, e \in ExpSeconds} \cup {<< <<>>, <<>> >>}

NextReplay ==
    \/ Tick
    \/ images = {} /\ now = 0 /\ UploadImage(AcctA, "file", MetaField({}), TRUE, JpegData)
    \/ CreateVariant(AcctA, VarV, Options("cover", 0, 0), FALSE)
    \/ CreateSigningKey(AcctA, "k")
    \/ \E name \in {"k", "default"} : DSKDelete(1, AcctA, name)
    \/ DSKList(1)
    \/ DSKCreate(1)
    \/ DSKRespond(1)
    \/ \E i \in ImageInputs(AcctA) : \E se \in ReplayInputs(AcctA, i, VarV) :
         DeliverImage(AcctA, i, VarV, se[1], se[2], TRUE)

SpecReplay == InitReplay /\ [][NextReplay]_vars

\* ------------------------------------------------------------------------
\* The signing key specification: creations and deletions of the keys of one
\* account, the deletions in flight together
\* ------------------------------------------------------------------------
KeyNames == {"k", "default"}

NextKeys ==
    \/ \E name \in KeyNames : CreateSigningKey(AcctA, name)
    \/ \E s \in SlotIds, name \in KeyNames : DSKDelete(s, AcctA, name)
    \/ \E s \in SlotIds : DSKList(s)
    \/ \E s \in SlotIds : DSKCreate(s)
    \/ \E s \in SlotIds : DSKRespond(s)

SpecKeys == InitList /\ [][NextKeys]_vars

\* ------------------------------------------------------------------------
\* The direct upload specification: one upload URL, requests to it in flight
\* together, and deletions of the image it creates
\* ------------------------------------------------------------------------
\* An expiry one second after the start of the clock.
NearExpiry == FormatRFC3339(TicksPerSec)

NextUpload ==
    \/ Tick
    \/ direct_uploads = {} /\ \E e \in {NearExpiry, FarExpiry}, m \in DirectMetas :
                                 CreateDirectUpload(AcctA, e, m)
    \/ \E s \in SlotIds, u \in {d.id : d \in direct_uploads}, hasFile \in BOOLEAN :
         HDUGet(s, u, hasFile, JpegData)
    \/ \E s \in SlotIds : HDUStore(s)
    \/ \E s \in SlotIds : HDUCreate(s)
    \/ \E s \in SlotIds : HDUSetMeta(s)
    \/ \E s \in SlotIds : HDUComplete(s)
    \/ \E i \in {d.id : d \in direct_uploads} : DeleteImage(AcctA, i)

SpecUpload == InitList /\ [][NextUpload]_vars

\* ------------------------------------------------------------------------
\* The variant specification: clients of one account create variants, each
\* under the lowest number that names no variant and no request in flight
\* ------------------------------------------------------------------------
VariantIds == [n \in 1..(MaxVariantsPerAccount + MaxConc + 1) |-> FormatInt(n)]

FreshVariantId ==
    LET used == {v.id : v \in {x \in variants : x.account_id = AcctA}}
                   \cup {reqs[s].v.id : s \in {t \in SlotIds : reqs[t].pc = "insert"}}
    IN VariantIds[CHOOSE n \in DOMAIN VariantIds :
                     /\ VariantIds[n] \notin used
                     /\ \A k \in 1..(n - 1) : VariantIds[k] \in used]

NextVariants ==
    \/ \E s \in SlotIds : CVCount(s, AcctA, FreshVariantId, Options("cover", 0, 0), FALSE)
    \/ \E s \in SlotIds : CVInsert(s)

SpecVariants == InitList /\ [][NextVariants]_vars

\* ------------------------------------------------------------------------
\* The two-account specification: the second account uploads an image and
\* creates the variant "v" and a key "k"; then the first account uploads,
\* updates and deletes images, variants and keys under the same names, naming
\* the image ids of either account, and requests deliveries with signatures
\* under any key value
\* ------------------------------------------------------------------------
\* The image ids in the store, of whatever account.
StoredImageIds == {r.id : r \in images}

\* The metadata a PATCH sets.
IsolationMeta == {[key |-> MetaKey, value |-> StrVal(<<Digit(1)>>)]}

\* The requests made for one account, at their first step.
RequestStart(a) ==
    \/ /\ ~\E r \in images : r.account_id = a
       /\ Cardinality(issued \cap ImageUuids) < Cardinality(Accounts)
       /\ UploadImage(a, "file", MetaField({}), TRUE, JpegData)
    \/ \E i \in StoredImageIds : DeleteImage(a, i)
    \/ \E i \in StoredImageIds :
         UIGet(1, a, i, PatchBody(TRUE, IsolationMeta, FALSE, FALSE))
    \/ CreateVariant(a, VarV, Options("cover", 0, 0), FALSE)
    \/ UpdateVariant(a, VarV, TRUE, Options("pad", 0, 0), FALSE, FALSE)
    \/ DeleteVariant(a, VarV)
    \/ CreateSigningKey(a, "k")
    \/ DSKDelete(1, a, "k")
    \/ \E i \in StoredImageIds : \E k \in KeyUuids :
         DeliverImage(a, i, VarV, Sign(k, a, i, VarV, FormatInt(Unix(MaxNow))),
                      FormatInt(Unix(MaxNow)), FALSE)

\* The later steps of the request of the account that is in flight.
RequestStep(a) ==
    /\ reqs[1].acct = a
    /\ \/ UIUpdate(1)
       \/ DSKList(1)
       \/ DSKCreate(1)
       \/ DSKRespond(1)

RequestFor(a) == RequestStart(a) \/ RequestStep(a)

\* The account holds an image, the variant and a key.
SetUp(b) ==
    /\ \E r \in images : r.account_id = b
    /\ GetVariant(b, VarV) # {}
    /\ ListSigningKeys(b) # {}

NextIsolation ==
    \/ ~SetUp(AcctB) /\ RequestStart(AcctB)
    \/ SetUp(AcctB) /\ RequestStart(AcctA)
    \/ \E a \in Accounts : RequestStep(a)

SpecIsolation == InitReplay /\ [][NextIsolation]_vars

\* ------------------------------------------------------------------------
\* The transformation specification: one image of the first account, of any
\* of the sizes and kinds of bytes below, the variant "v" created with any fit
\* mode and target size and deleted again, and deliveries of the image
\* ------------------------------------------------------------------------
\* Widths and heights of the stored images (below and above the 100 pixels
\* at which imaging.Fill changes its method), and of the variants (0: not set).
SrcDims == {1, 3, 100, 150}
TargetDims == {0, 1, 2, 4, 100, 200}

\* Bytes that are no image, up to a length.
Filler(n) == [i \in 1..n |-> 32]

\* Stored bytes that IsSVG or DetectFormat may take for SVG or GIF: an SVG
\* document, with and without the XML declaration; a GIF; JPEG and PNG
\* signatures followed by the SVG marker, at once or so that the marker ends
\* at the last byte IsSVG looks at or one byte later; the XML declaration
\* without the marker; "GIF" and two bytes.
PassInputs ==
    {Data(SvgMarker \o <<62>>, 0, 0),
     Data(XmlMarker \o <<63, 62>> \o SvgMarker \o <<62>>, 0, 0),
     Data(GifSig \o <<1>>, 3, 3),
     Data(JpegSig \o SvgMarker, 3, 3),
     Data(PngSig \o SvgMarker, 3, 3),
     Data(JpegSig \o Filler(SvgHeaderLimit - 7) \o SvgMarker, 3, 3),
     Data(JpegSig \o Filler(SvgHeaderLimit - 6) \o SvgMarker, 3, 3),
     Data(XmlMarker \o <<63, 62>>, 0, 0),
     Data(SubSeq(GifSig, 1, 3) \o <<56, 57>>, 0, 0)}

\* JPEG images of the sizes above, and a PNG image.
RasterInputs ==
    {Data(JpegSig \o <<224>>, w, h) : w \in SrcDims, h \in SrcDims}
        \cup {Data(PngSig \o <<0>>, 3, 1)}

NextTransform ==
    \/ images = {} /\ issued = {} /\ \E data \in RasterInputs \cup PassInputs :
         UploadImage(AcctA, "file", MetaField({}), FALSE, data)
    \/ GetVariant(AcctA, VarV) = {}
         /\ \E fit \in validFitModes, w \in TargetDims, h \in TargetDims :
              CreateVariant(AcctA, VarV, Options(fit, w, h), FALSE)
    \/ DeleteVariant(AcctA, VarV)
    \/ \E i \in ImageInputs(AcctA) : DeliverImage(AcctA, i, VarV, <<>>, <<>>, FALSE)

SpecTransform == InitList /\ [][NextTransform]_vars

\* ------------------------------------------------------------------------
\* The listing input specification: images with and without metadata, by
\* upload and by direct upload, and a client that sends one GET /v2 with any
\* of the operators and continuation tokens below
\* ------------------------------------------------------------------------
\* Operators of a metadata[key][op] parameter: two the handler lists, one the
\* store also takes, and two nobody knows ("like" and the empty one).
OpInputs == {"eq", "lte", "le", "like", ""}

\* No filter, one filter with each operator, and a good filter next to a bad
\* one.
OpFilterInputs ==
    {{}} \cup {{[key |-> MetaKey, op |-> op, value |-> StrVal(<<Digit(1)>>)]} :
                  op \in OpInputs}
         \cup {{[key |-> MetaKey, op |-> "eq", value |-> StrVal(<<Digit(1)>>)],
                [key |-> "j", op |-> "like", value |-> StrVal(<<Digit(1)>>)]}}

\* The tokens an answer with the row as its last record carries.
RowCursors(accountID) == {NextCursor(<<scanImage(r)>>, 1) : r \in AccountRows(accountID)}

\* Continuation tokens: none; those of the account's rows; "x" (no separator);
\* "x|y" and "|" (a separator, and no timestamp before it); a token of a row
\* with its separator taken out.
TokenInputs(accountID) ==
    {<<>>, <<120>>, <<120, ChPipe, 121>>, <<ChPipe>>}
        \cup RowCursors(accountID)
        \cup {SplitN2(c, ChPipe)[1] \o SplitN2(c, ChPipe)[2] : c \in RowCursors(accountID)}

NextListInput ==
    \/ Quiet /\ Cardinality(issued) < MaxUuids - 1
             /\ UploadImage(AcctA, "file", MetaField({}), FALSE, JpegData)
    \/ Quiet /\ Cardinality(issued) < MaxUuids - 1
             /\ \E m \in DirectMetas : CreateDirectUpload(AcctA, FarExpiry, m)
    \/ Quiet /\ \E u \in {d.id : d \in direct_uploads} : HDUGet(1, u, TRUE, JpegData)
    \/ Quiet /\ HDUStore(1)
    \/ Quiet /\ HDUCreate(1)
    \/ Quiet /\ HDUSetMeta(1)
    \/ Quiet /\ HDUComplete(1)
    \/ \E so \in SortInputs, fs \in OpFilterInputs : \E token \in TokenInputs(AcctA) :
          ListRequest(AcctA, <<Digit(1)>>, so, token, fs)
    \/ \E so \in SortInputs, op \in OpInputs : \E token \in TokenInputs(AcctA) :
          StoreList(AcctA, token, 1, so,
                    [key |-> MetaKey, op |-> op, value |-> StrVal(<<Digit(1)>>)])
    \/ \E so \in SortInputs : \E token \in TokenInputs(AcctA) :
          StoreList(AcctA, token, 1, so, NoFilter)

SpecListInput == InitList /\ [][NextListInput]_vars

\* ------------------------------------------------------------------------
\* Properties of the cursor walk
\* ------------------------------------------------------------------------
WalkPerPage == EffPerPage(walk.pp)
WalkIds == {walk.all[i].ID : i \in 1..Len(walk.all)}

\* (uploaded, id) order of two returned images in the direction of the walk.
ImgBefore(a, b, sortIn) ==
    IF EffSortOrder(sortIn) = "asc"
    THEN a.Uploaded < b.Uploaded \/ (a.Uploaded = b.Uploaded /\ StrLess(a.ID, b.ID))
    ELSE b.Uploaded < a.Uploaded \/ (a.Uploaded = b.Uploaded /\ StrLess(b.ID, a.ID))

\* C1: a walk with page size N >= 1 over M unchanging images of the account
\* ends after at most floor(M/N)+1 calls with an empty token, and the pages
\* together hold each of the M images exactly once, in (uploaded, id) order of
\* the requested direction.
C1_WalkReturnsAllOnceInOrder ==
    (walk.phase = "done" /\ ~walk.dirty /\ walk.filters = {}) =>
        /\ walk.code = 200
        /\ walk.cursor = <<>>
        /\ WalkPerPage >= 1
        /\ walk.calls <= (Cardinality(walk.snap) \div WalkPerPage) + 1
        /\ Len(walk.all) = Cardinality(walk.snap)
        /\ {<<walk.all[i].ID, walk.all[i].Uploaded>> : i \in 1..Len(walk.all)}
             = {<<r.id, ParseRFC3339(r.uploaded)>> : r \in walk.snap}
        /\ \A i, j \in 1..Len(walk.all) :
             i < j => ImgBefore(walk.all[i], walk.all[j], walk.so)

\* A finished walk of four calls over three images, two of them uploaded in the
\* same second.
C1_Witness ==
    /\ walk.phase = "done" /\ ~walk.dirty /\ walk.filters = {}
    /\ Cardinality(walk.snap) = 3
    /\ walk.calls = 4
    /\ \E r1, r2 \in walk.snap : r1 # r2 /\ r1.uploaded = r2.uploaded
    /\ \E r1, r2 \in walk.snap : r1.uploaded # r2.uploaded

\* C3: with creations and deletions between the requests of a walk, no image
\* is returned twice and no image that was there at every request is left out.
\* (Ids of uploads are fresh, so the claim's proviso about inserts at or before
\* the cursor is not needed for this to hold.)
C3_NoDuplicateNoSkipUnderWrites ==
    (walk.phase = "done" /\ walk.filters = {}) =>
        /\ \A i, j \in 1..Len(walk.all) :
             i # j => walk.all[i].ID # walk.all[j].ID
        /\ \A r \in walk.live : r.id \in WalkIds

\* A finished walk of several calls during which an image of the start was
\* deleted, another stayed, and an image created meanwhile was returned.
C3_Witness ==
    /\ walk.phase = "done" /\ walk.dirty /\ walk.calls >= 3
    /\ walk.snap \ walk.live # {}
    /\ walk.live # {}
    /\ \E i \in 1..Len(walk.all) : walk.all[i].ID \notin {r.id : r \in walk.snap}

\* C2: every answer of the V2 listing, filtered or not, holds at most pageSize
\* images; its token is set exactly when it holds pageSize images, and a token
\* splits at the first "|" into the upload time and the id of the last image.
C2_PageSizeAndCursor ==
    (walk.calls > 0 /\ walk.code = 200) =>
        /\ Len(walk.page) <= WalkPerPage
        /\ (walk.cursor # <<>>) <=> (Len(walk.page) = WalkPerPage)
        /\ walk.cursor # <<>> =>
             LET parts == SplitN2(walk.cursor, ChPipe)
                 last == walk.page[Len(walk.page)]
             IN /\ Len(parts) = 2
                /\ ParsesRFC3339(parts[1])
                /\ ParseRFC3339(parts[1]) = last.Uploaded
                /\ parts[2] = last.ID

\* A filtered answer with a full page and a token, after an earlier page, and
\* images of different upload seconds in the account.
C2_Witness ==
    /\ walk.calls = 2 /\ walk.code = 200 /\ walk.filters # {}
    /\ Len(walk.page) = WalkPerPage
    /\ walk.cursor # <<>>
    /\ \E r1, r2 \in walk.snap : r1.uploaded # r2.uploaded

\* Whether an image's metadata satisfies a filter: it has the key, and its
\* value, as a string, compares with the filter's value as the operator says.
Satisfies(meta, f) ==
    \E kv \in meta :
       /\ kv.key = f.key
       /\ CASE f.op = "eq" -> Sprintf(kv.value) = Sprintf(f.value)
            [] f.op = "ne" -> Sprintf(kv.value) # Sprintf(f.value)
            [] f.op = "lt" -> StrLess(Sprintf(kv.value), Sprintf(f.value))
            [] f.op = "gt" -> StrLess(Sprintf(f.value), Sprintf(kv.value))
            [] f.op = "lte" -> ~StrLess(Sprintf(f.value), Sprintf(kv.value))
            [] OTHER -> ~StrLess(Sprintf(kv.value), Sprintf(f.value))

\* C4: a walk of the listing with one metadata filter over an unchanging store
\* returns every image of the account whose metadata satisfies the filter,
\* exactly once and in (uploaded, id) order, and no other image.
C4_FilteredWalkComplete ==
    (walk.phase = "done" /\ ~walk.dirty /\ walk.filters # {}) =>
        \A f \in walk.filters :
            /\ WalkIds = {r.id : r \in {x \in walk.snap : Satisfies(x.meta, f)}}
            /\ \A i, j \in 1..Len(walk.all) :
                 i < j => ImgBefore(walk.all[i], walk.all[j], walk.so)

\* C5: a complete one-page listing filtered with eq holds exactly the images
\* whose metadata has the key with the value; filtered with ne, exactly the
\* images that have the key with another value.
C5_EqNeSemantics ==
    (walk.calls = 1 /\ walk.code = 200 /\ walk.cursor = <<>> /\ walk.filters # {}) =>
        \A f \in walk.filters :
            {walk.page[i].ID : i \in 1..Len(walk.page)} =
                {r.id : r \in {x \in walk.snap :
                    \E kv \in x.meta :
                       /\ kv.key = f.key
                       /\ (f.op = "eq" => Sprintf(kv.value) = Sprintf(f.value))
                       /\ (f.op = "ne" => Sprintf(kv.value) # Sprintf(f.value))}}

\* What the filtered listing does return: the images whose rows of
\* image_metadata satisfy the filter.
FilteredByIndex ==
    (walk.phase = "done" /\ walk.filters # {}) =>
        \A f \in walk.filters :
            WalkIds = {r.id : r \in {x \in walk.snap :
                         Satisfies({[key |-> m.key, value |-> StrVal(m.value)] :
                                      m \in {n \in image_metadata :
                                               n.account_id = x.account_id
                                               /\ n.image_id = x.id}}, f)}}

\* ------------------------------------------------------------------------
\* Properties of signed delivery
\* ------------------------------------------------------------------------
IsHexString(s) ==
    /\ Len(s) % 2 = 0
    /\ \A i \in 1..Len(s) :
         \/ s[i] >= 48 /\ s[i] <= 57
         \/ s[i] >= 97 /\ s[i] <= 102
         \/ s[i] >= 65 /\ s[i] <= 70

ToLower(s) == [i \in 1..Len(s) |-> IF s[i] >= 65 /\ s[i] <= 90 THEN s[i] + 32 ELSE s[i]]

\* The conditions of a valid signature, for the request of d in the current
\* state: sig and exp present, exp a decimal integer not before the current
\* second, sig hex, and the MAC of path + exp under a key of the account.
ValidSignature(d) ==
    /\ d.sig # <<>> /\ d.exp # <<>>
    /\ ParseInt(d.exp).ok
    /\ Unix(now) <= ParseInt(d.exp).val
    /\ IsHexString(d.sig)
    /\ {k \in signing_keys : k.account_id = d.acct} # {}
    /\ \E k \in {x \in signing_keys : x.account_id = d.acct} :
         ToLower(d.sig) =
           HexEncode(HMAC(k.value, DeliverPath(d.acct, d.img, d.variant) \o d.exp))

\* C6: whenever delivery consults verifySignature, it returns true if and only
\* if sig and exp are present, exp parses as a decimal integer with current
\* time <= exp, sig decodes as hex, the account has a signing key, and the
\* decoded sig is HMAC(key value, path + exp) for a key of the account; when
\* it returns false the delivery answers 403.
C6_VerifySignatureIff ==
    dlv.checked =>
        /\ dlv.ok <=> ValidSignature(dlv)
        /\ ~dlv.ok => dlv.code = 403

\* A checked request made at exactly the second of its exp, after the clock
\* has moved, is accepted.
C6_Witness ==
    /\ dlv.checked /\ dlv.ok /\ dlv.code = 200
    /\ Unix(now) > 0
    /\ Unix(now) = ParseInt(dlv.exp).val

\* C7: for an image and a variant that exist, DeliverImage checks the
\* signature exactly when enforcement is on, the image requires signed URLs
\* and the variant does not waive them, and then answers 403 exactly when the
\* signature is not valid; otherwise any sig/exp, or none, is delivered with
\* 200 (the stored bytes being an image the transformer reads) and the
\* signature is not checked.
C7_SignatureRequiredExactlyWhen ==
    LET imgs == {r \in images : r.account_id = dlv.acct /\ r.id = dlv.img}
        vs == {v \in variants : v.account_id = dlv.acct /\ v.id = dlv.variant}
    IN dlv.code # 0 /\ imgs # {} /\ vs # {} =>
         LET required == /\ enforce
                         /\ \A r \in imgs : r.require_signed_urls
                         /\ \A v \in vs : ~v.never_require_signed_urls
             readable == \E b \in blobs :
                            /\ b.account_id = dlv.acct /\ b.image_id = dlv.img
                            /\ \/ IsSVG(b.data)
                               \/ DetectFormat(b.data) = "gif"
                               \/ Decodes(b.data)
         IN /\ dlv.checked <=> required
            /\ required => (dlv.code = 403 <=> ~ValidSignature(dlv))
            /\ ~required /\ readable => dlv.code = 200
            /\ required /\ ValidSignature(dlv) /\ readable => dlv.code = 200

\* With enforcement on and an image that requires signed URLs, a variant with
\* neverRequireSignedURLs is delivered to a request without sig and exp.
C7_Witness ==
    /\ dlv.code = 200 /\ ~dlv.checked
    /\ dlv.sig = <<>> /\ dlv.exp = <<>>
    /\ enforce
    /\ \E r \in images : r.account_id = dlv.acct /\ r.id = dlv.img
                           /\ r.require_signed_urls
    /\ \E v \in variants : v.account_id = dlv.acct /\ v.id = dlv.variant
                             /\ v.never_require_signed_urls

\* The request of the signed URL the client keeps.
AuthRequest ==
    [acct |-> auth.acct, img |-> auth.img, variant |-> auth.variant,
     sig |-> auth.sig, exp |-> auth.exp]

\* C8: once a signed URL has been authorized, a request with it is authorized
\* in every later state where the current second is not after exp and the key
\* that signed it is still registered, and is denied in every state after
\* exp; a delivery, authorized or not, leaves the signing keys, image
\* records, variants and blobs (and every other table) as they were.
C8_ReusableUntilExpiry ==
    /\ [](auth.set =>
            LET registered == \E k \in signing_keys :
                                 k.account_id = auth.acct /\ k.value = auth.key
                again == verifySignature(auth.acct, auth.img, auth.variant,
                                         auth.sig, auth.exp)
                sent == /\ dlv.code # 0 /\ dlv.checked
                        /\ [acct |-> dlv.acct, img |-> dlv.img,
                            variant |-> dlv.variant, sig |-> dlv.sig,
                            exp |-> dlv.exp] = AuthRequest
            IN /\ Unix(now) <= ParseInt(auth.exp).val /\ registered
                    => again /\ (sent => dlv.ok /\ dlv.code # 403)
               /\ Unix(now) > ParseInt(auth.exp).val
                    => ~again /\ (sent => ~dlv.ok /\ dlv.code = 403))
    /\ [][dlv'.code # 0 => UNCHANGED <<dbVars, issued, now>>]_vars

\* The kept URL is delivered again at a later time than its first use.
C8_Witness ==
    /\ auth.set /\ now > auth.at
    /\ dlv.code = 200 /\ dlv.checked /\ dlv.ok
    /\ [acct |-> dlv.acct, img |-> dlv.img, variant |-> dlv.variant,
        sig |-> dlv.sig, exp |-> dlv.exp] = AuthRequest

\* ------------------------------------------------------------------------
\* Properties of signing key deletion
\* ------------------------------------------------------------------------
\* C9: when a DeleteSigningKey request completes with 200, the account has at
\* least one signing key, also when delete and create requests of the account
\* interleave.
C9_KeyRemainsAfterDelete ==
    [][\A s \in SlotIds :
         reqs[s].h = "DeleteSigningKey" /\ reqs[s].pc = "respond"
             /\ reqs'[s].pc = "idle" /\ reqs'[s].resp = 200
         => {k \in signing_keys' : k.account_id = reqs[s].acct} # {}]_vars

\* With no DeleteSigningKey request in flight, an account whose delete was
\* answered 200 has a signing key.
KeyRemainsAtRest ==
    (\A s \in SlotIds : reqs[s].pc = "idle") =>
        \A s \in SlotIds :
            reqs[s].h = "DeleteSigningKey" /\ reqs[s].resp = 200
                => {k \in signing_keys : k.account_id = reqs[s].acct} # {}

\* ------------------------------------------------------------------------
\* Properties of the direct upload
\* ------------------------------------------------------------------------
\* A request that starts when the upload is completed and not expired is
\* answered 409 and changes nothing (an expired upload answers 400 first).
CompletedUploadConflicts ==
    \A s \in SlotIds :
        /\ reqs[s].pc = "idle" /\ reqs'[s] # reqs[s]
        /\ reqs'[s].h = "HandleDirectUpload"
        /\ \E d \in direct_uploads :
              d.id = reqs'[s].id /\ d.completed /\ ~(now > ParseRFC3339(d.expiry))
        => reqs'[s].resp = 409 /\ UNCHANGED dbVars

\* C10: for every direct-upload id at most one POST /upload/{id} is answered
\* 200, whatever requests and other calls interleave with it, and a request
\* that starts when the upload is completed is answered 409 and changes
\* nothing.
C10_AtMostOneUploadSucceeds ==
    /\ [](\A u \in ImageUuids : uploadOK[u] <= 1)
    /\ [][CompletedUploadConflicts]_vars

\* The 409 answer alone.
C10_ConflictAfterCompletion == [][CompletedUploadConflicts]_vars

\* C11: a POST /upload/{id} that starts when the upload's expiry is before the
\* current time is answered 400 "upload URL has expired", whether the upload
\* is completed or pending, and changes no table and no blob.
C11_ExpiredUploadRejected ==
    [][\A s \in SlotIds :
         /\ reqs[s].pc = "idle" /\ reqs'[s] # reqs[s]
         /\ reqs'[s].h = "HandleDirectUpload"
         /\ \E d \in direct_uploads :
               d.id = reqs'[s].id /\ ParseRFC3339(d.expiry) < now
         => /\ reqs'[s].pc = "idle"
            /\ reqs'[s].resp = 400
            /\ reqs'[s].msg = "upload URL has expired"
            /\ UNCHANGED dbVars]_vars

\* An upload that was completed and has since expired is answered 400 (the
\* only client that ever spoke completed it, and 400 is its latest answer).
C11_Witness ==
    \E s \in SlotIds, d \in direct_uploads :
        /\ \A t \in SlotIds \ {s} : reqs[t] = IdleReq
        /\ reqs[s].h = "HandleDirectUpload" /\ reqs[s].pc = "idle"
        /\ reqs[s].id = d.id
        /\ reqs[s].resp = 400 /\ reqs[s].msg = "upload URL has expired"
        /\ d.completed
        /\ GetImage(d.account_id, d.id) # {}

\* ------------------------------------------------------------------------
\* Properties of the variant limit
\* ------------------------------------------------------------------------
\* A create that starts while the account holds the maximum is answered 400
\* "maximum number of variants reached" and adds no variant.
FullAccountRejects ==
    \A s \in SlotIds :
        /\ reqs[s].pc = "idle" /\ reqs'[s] # reqs[s]
        /\ reqs'[s].h = "CreateVariant"
        /\ reqs'[s].msg \notin {"variant id is required", "invalid fit mode"}
        /\ CountVariants(AcctA) >= MaxVariantsPerAccount
        => /\ reqs'[s].resp = 400
           /\ reqs'[s].msg = "maximum number of variants reached"
           /\ variants' = variants

\* C12: after any interleaving of CreateVariant requests an account holds at
\* most 100 variants, and a create attempted while 100 exist is answered 400
\* and adds no variant.
C12_VariantLimit ==
    /\ [](\A a \in Accounts : CountVariants(a) <= MaxVariantsPerAccount)
    /\ [][FullAccountRejects]_vars

\* The rejection alone.
C12_RejectedWhenFull == [][FullAccountRejects]_vars

\* ------------------------------------------------------------------------
\* Account isolation
\* ------------------------------------------------------------------------
\* The images, blobs, variants and signing keys of an account.
RowsOf(b) ==
    <<{r \in images : r.account_id = b}, {x \in blobs : x.account_id = b},
      {v \in variants : v.account_id = b}, {k \in signing_keys : k.account_id = b}>>

\* What the reads of account a return belongs to a.
ReadsOwnRows(a) ==
    /\ \A i \in StoredImageIds :
         /\ \A r \in GetImage(a, i) : r.account_id = a
         /\ \A x \in Retrieve(a, i) : x.account_id = a
    /\ \A so \in {"asc", "desc"} :
         LET res == ListImagesV2(a, <<>>, MaxPerPage, so)
         IN /\ \A n \in 1..Len(res.images) : res.images[n].AccountID = a
            /\ Len(res.images) = Cardinality({r \in images : r.account_id = a})
    /\ \A v \in GetVariant(a, VarV) \cup ListVariants(a) : v.account_id = a
    /\ CountVariants(a) = Cardinality({v \in variants : v.account_id = a})
    /\ \A k \in ListSigningKeys(a) : k.account_id = a

\* The signature of the request of d is the MAC of its path and exp under a
\* key of another account.
SignedByOtherAccount(d) ==
    \E k \in signing_keys :
        /\ k.account_id # d.acct
        /\ ToLower(d.sig) =
             HexEncode(HMAC(k.value, DeliverPath(d.acct, d.img, d.variant) \o d.exp))

\* A step that changes the rows of an account is not a request made for
\* another account.
WritesOwnRows ==
    \A b \in Accounts : RowsOf(b)' # RowsOf(b) =>
        \A a \in Accounts \ {b} : ~RequestFor(a)

\* C13: accounts are isolated: a get, list, count, update or delete issued for
\* account A never returns or changes an image, variant or signing key of
\* another account B, and a signature computed with a key of B never
\* authorizes a delivery under a path of A.
C13_AccountsIsolated ==
    /\ [](\A a \in Accounts : ReadsOwnRows(a))
    /\ [](dlv.checked /\ SignedByOtherAccount(dlv) => ~dlv.ok /\ dlv.code = 403)
    /\ [][WritesOwnRows]_vars

\* Both accounts hold an image, the variant "v" and a key "k"; a delivery of
\* the first account's image, signed for its path and an exp still ahead with
\* the key of the second account, has just been answered 403.
C13_Witness ==
    /\ \A a \in Accounts :
         /\ \E r \in images : r.account_id = a
         /\ GetVariant(a, VarV) # {}
         /\ \E k \in signing_keys : k.account_id = a /\ k.name = "k"
    /\ dlv.acct = AcctA /\ dlv.checked /\ dlv.code = 403
    /\ SignedByOtherAccount(dlv)
    /\ Unix(now) <= ParseInt(dlv.exp).val

\* ------------------------------------------------------------------------
\* Properties of the fit modes
\* ------------------------------------------------------------------------
Abs(x) == IF x < 0 THEN 0 - x ELSE x

\* The stored bytes and the variant of the delivery that has just completed.
DlvSource == (CHOOSE b \in blobs : b.account_id = dlv.acct /\ b.image_id = dlv.img).data
DlvVariant == CHOOSE v \in variants : v.account_id = dlv.acct /\ v.id = dlv.variant

\* The effective target: a width or height of 0 is the source's.
DlvTargetW == IF DlvVariant.width = 0 THEN DlvSource.w ELSE DlvVariant.width
DlvTargetH == IF DlvVariant.height = 0 THEN DlvSource.h ELSE DlvVariant.height

\* The delivery has decoded, fitted and encoded the image with the fit mode.
Fitted(fit) ==
    /\ dlv.code = 200 /\ dlv.format \in {"jpeg", "png"}
    /\ DlvVariant.fit = fit

\* w : h is the aspect ratio of the source, to one pixel.
SourceRatio(w, h) ==
    Abs(w * DlvSource.h - h * DlvSource.w) <= Max(DlvSource.w, DlvSource.h)

\* C14: for fit scale-down, whenever the effective target width and height
\* (0 meaning the source dimension) are both >= the source's, the output has
\* the source's dimensions; and the output is never larger than the source on
\* either axis.
C14_ScaleDownNeverEnlarges ==
    Fitted("scale-down") =>
        /\ DlvTargetW >= DlvSource.w /\ DlvTargetH >= DlvSource.h
              => dlv.out.w = DlvSource.w /\ dlv.out.h = DlvSource.h
        /\ dlv.out.w <= DlvSource.w /\ dlv.out.h <= DlvSource.h

\* A scale-down whose target is wider than the source and has no height set
\* delivers the source's dimensions.
C14_Witness ==
    /\ Fitted("scale-down")
    /\ DlvVariant.width > DlvSource.w /\ DlvVariant.height = 0
    /\ DlvSource.w # DlvSource.h
    /\ dlv.out.w = DlvSource.w /\ dlv.out.h = DlvSource.h

\* C15, as stated: for fit contain, for every source size and every target
\* larger than the source on both axes, the output dimensions equal the
\* target width and height exactly.
C15_ContainEqualsTarget ==
    Fitted("contain") /\ DlvTargetW > DlvSource.w /\ DlvTargetH > DlvSource.h =>
        dlv.out.w = DlvTargetW /\ dlv.out.h = DlvTargetH

\* C15, amended: for fit contain, for every source size and every target
\* larger than the source on both axes, the output equals the target on one
\* axis and does not exceed it on the other, with the source's aspect ratio
\* to one pixel; it equals the target exactly when the target has the
\* source's aspect ratio.
C15_ContainFillsOneAxis ==
    Fitted("contain") /\ DlvTargetW > DlvSource.w /\ DlvTargetH > DlvSource.h =>
        /\ dlv.out.w <= DlvTargetW /\ dlv.out.h <= DlvTargetH
        /\ dlv.out.w = DlvTargetW \/ dlv.out.h = DlvTargetH
        /\ SourceRatio(dlv.out.w, dlv.out.h)
        /\ DlvTargetW * DlvSource.h = DlvTargetH * DlvSource.w
              => dlv.out.w = DlvTargetW /\ dlv.out.h = DlvTargetH

\* A contain that enlarges a source to a target of another aspect ratio: the
\* output is larger than the source and smaller than the target on one axis.
C15_Witness ==
    /\ Fitted("contain")
    /\ DlvTargetW > DlvSource.w /\ DlvTargetH > DlvSource.h
    /\ dlv.out.w > DlvSource.w /\ dlv.out.h > DlvSource.h
    /\ dlv.out.w < DlvTargetW \/ dlv.out.h < DlvTargetH

\* C16: for fit cover, for every source size and every positive target width
\* and height, the output dimensions equal the target width and height.
C16_CoverEqualsTarget ==
    Fitted("cover") /\ DlvVariant.width > 0 /\ DlvVariant.height > 0 =>
        dlv.out.w = DlvVariant.width /\ dlv.out.h = DlvVariant.height

\* A cover of a source of 100 pixels or more on both axes by a target of
\* another aspect ratio, larger on one axis and smaller on the other.
C16_Witness ==
    /\ Fitted("cover")
    /\ DlvSource.w >= 100 /\ DlvSource.h >= 100
    /\ DlvVariant.width > DlvSource.w
    /\ DlvVariant.height > 0 /\ DlvVariant.height < DlvSource.h
    /\ dlv.out.w = DlvVariant.width /\ dlv.out.h = DlvVariant.height

\* C17: for fit pad, for every source size and every positive target, the
\* output dimensions equal the target width and height, and the content
\* pasted onto the canvas has the source's aspect ratio (up to rounding) and
\* fits inside the canvas.
C17_PadEqualsTarget ==
    Fitted("pad") /\ DlvVariant.width > 0 /\ DlvVariant.height > 0 =>
        /\ dlv.out.w = DlvVariant.width /\ dlv.out.h = DlvVariant.height
        /\ dlv.content.w >= 1 /\ dlv.content.h >= 1
        /\ dlv.content.w <= dlv.out.w /\ dlv.content.h <= dlv.out.h
        /\ SourceRatio(dlv.content.w, dlv.content.h)

\* A pad of a source that is scaled down to a canvas of another aspect ratio:
\* the content is smaller than the canvas on one axis.
C17_Witness ==
    /\ Fitted("pad")
    /\ DlvVariant.width > 0 /\ DlvVariant.height > 0
    /\ DlvSource.w > DlvVariant.width
    /\ dlv.content.w = dlv.out.w /\ dlv.content.h < dlv.out.h
    /\ dlv.content.h < DlvSource.h

\* ------------------------------------------------------------------------
\* Properties of the pass-through formats
\* ------------------------------------------------------------------------
\* The SVG marker lies within the leading bytes IsSVG looks at.
MarkerInHeader(data) ==
    \E i \in 1..(SvgHeaderLimit - Len(SvgMarker) + 1) :
        /\ i + Len(SvgMarker) - 1 <= Len(data.bytes)
        /\ \A j \in 1..Len(SvgMarker) : data.bytes[i + j - 1] = SvgMarker[j]

\* The delivery that has just completed has read the stored bytes and called
\* Transform.
Transformed ==
    /\ dlv.code \in {200, 500}
    /\ \E b \in blobs : b.account_id = dlv.acct /\ b.image_id = dlv.img
    /\ \E v \in variants : v.account_id = dlv.acct /\ v.id = dlv.variant

\* C18: for every input detected as SVG or as GIF, Transform returns the
\* input bytes unchanged with the format "svg" or "gif", whatever the fit
\* mode, width and height; SVG detection comes first, so an input with the SVG
\* marker in its first 512 bytes is passed through even if it starts with a
\* raster signature.
C18_SvgGifPassThrough ==
    Transformed =>
        /\ IsSVG(DlvSource) =>
              dlv.code = 200 /\ dlv.format = "svg" /\ dlv.out = DlvSource
        /\ ~IsSVG(DlvSource) /\ DetectFormat(DlvSource) = "gif" =>
              dlv.code = 200 /\ dlv.format = "gif" /\ dlv.out = DlvSource
        /\ MarkerInHeader(DlvSource) =>
              dlv.code = 200 /\ dlv.format = "svg" /\ dlv.out = DlvSource

\* Bytes that start with the JPEG signature and carry the SVG marker as the
\* last four of their first 512 bytes are delivered unchanged as SVG by a
\* variant with fit cover and a target size.
C18_Witness ==
    /\ Transformed
    /\ HasPrefix(DlvSource.bytes, JpegSig)
    /\ Len(DlvSource.bytes) = SvgHeaderLimit
    /\ DlvVariant.fit = "cover" /\ DlvVariant.width > 0 /\ DlvVariant.height > 0
    /\ dlv.code = 200 /\ dlv.format = "svg" /\ dlv.out = DlvSource


\* ------------------------------------------------------------------------
\* Operators and continuation tokens of a listing
\* ------------------------------------------------------------------------
\* The one filter of a recorded request or query.
WalkFilter == CHOOSE g \in walk.filters : TRUE

\* A request whose filters carry an operator outside the handler's six.
HandlerGotUnsupportedOp ==
    walk.phase = "done" /\ \E g \in walk.filters : g.op \notin ValidOps

\* A store query whose operator is outside the handler's six.
StoreGotUnsupportedOp ==
    walk.phase = "store" /\ walk.filters # {} /\ WalkFilter.op \notin ValidOps

HandlerRejects == walk.code = 400 /\ walk.page = <<>> /\ walk.cursor = <<>>

\* The operator among the six whose query the store runs for `op`.
StandsFor(op) ==
    CASE op = "le" -> "lte"
      [] op = "ge" -> "gte"
      [] op \in ValidOps -> op
      [] OTHER -> "eq"

\* What the recorded store query returned is what the same query returns with
\* the operator StandsFor gives.
StoreAnswersAsFor ==
    LET g == WalkFilter
        res == ListImagesWithFilter(walk.acct, walk.sent, 1, walk.so, g.key,
                                    StandsFor(g.op), g.value)
    IN /\ walk.err = res.err
       /\ walk.page = res.images
       /\ walk.cursor = res.nextCursor

\* C19 (as stated): a listing whose metadata filter uses an operator outside
\* {eq, ne, lt, gt, lte, gte} fails with an input error and returns no page,
\* at the HTTP handler and at the store query ListImagesWithFilter alike.
C19_UnsupportedOperatorFails ==
    /\ HandlerGotUnsupportedOp => HandlerRejects
    /\ StoreGotUnsupportedOp => walk.err /\ walk.page = <<>> /\ walk.cursor = <<>>

\* C19 (amended): the HTTP handler answers such a listing 400 with no page and
\* no token; the store query ListImagesWithFilter does not fail on the
\* operator: it runs "le" as lte, "ge" as gte and any other operator as eq.
C19_HandlerRejectsStoreFallsBack ==
    /\ HandlerGotUnsupportedOp => HandlerRejects
    /\ StoreGotUnsupportedOp => StoreAnswersAsFor

\* The handler has rejected a request for its operator "like" in a state where
\* the store's query with that operator selects a row.
C19_Witness ==
    /\ HandlerGotUnsupportedOp
    /\ HandlerRejects
    /\ \E g \in walk.filters :
         /\ g.op = "like"
         /\ ListImagesWithFilter(walk.acct, <<>>, 1, walk.so, g.key, g.op,
                                 g.value).images # <<>>


\* The token is the one an answer carries for some record: the record's upload
\* time as the store formats it, the separator, the record's id.
DecodesToPair(token) ==
    LET parts == SplitN2(token, ChPipe)
    IN /\ Len(parts) = 2
       /\ \E t \in 0..MaxNow : parts[1] = FormatRFC3339Nano(t)
       /\ parts[2] \in ImageUuids

\* A request or a store query that carried a token no answer can carry.
GotMalformedCursor ==
    /\ walk.phase \in {"done", "store"}
    /\ walk.sent # <<>>
    /\ ~DecodesToPair(walk.sent)
    /\ \A g \in walk.filters : g.op \in ValidOps

\* C20: a listing called with a non-empty cursor that does not decode to a
\* (timestamp, id) pair of an earlier response fails with an error and returns
\* no records and no next cursor.
C20_MalformedCursorFails ==
    GotMalformedCursor =>
        /\ IF walk.phase = "store" THEN walk.err ELSE walk.code \notin {0, 200}
        /\ walk.page = <<>>
        /\ walk.cursor = <<>>


\* ------------------------------------------------------------------------
\* Specification: twenty-five uploads to one account, a second of the clock
\* passing after the twelfth, then a client that lists them ten at a time and
\* calls once more after the last answer
\* ------------------------------------------------------------------------
ScenarioUuids == {<<97 + i>> : i \in 0..24}

\* The least and the greatest of the ids not yet issued.
EndsOf(ids) == {i \in ids : (\A j \in ids : ~StrLess(j, i)) \/ (\A j \in ids : ~StrLess(i, j))}

ScenarioLoaded == Cardinality(AccountRows(AcctA)) = Cardinality(ScenarioUuids)

NextScenario ==
    \/ Quiet /\ now < TicksPerSec /\ Cardinality(images) = 12 /\ Tick
    \/ Quiet /\ UploadImageWith(EndsOf(ScenarioUuids \ issued), AcctA, "file",
                                MetaField({}), FALSE, JpegData)
    \/ ScenarioLoaded /\ \E so \in SortInputs :
          WalkStart(AcctA, <<Digit(1), Digit(0)>>, so, {})
    \/ WalkNext
    \/ WalkAgain

SpecScenario == InitList /\ [][NextScenario]_vars

\* The ids of the records of the answers so far hold no id twice.
NoOverlap == \A i, j \in 1..Len(walk.all) : i # j => walk.all[i].ID # walk.all[j].ID

ThreePages ==
    /\ walk.calls = 1 => Len(walk.page) = 10
    /\ walk.calls = 2 => Len(walk.page) = 10
    /\ walk.calls = 3 => Len(walk.page) = 5 /\ Len(walk.all) = 25 /\ NoOverlap

\* C21 (as stated): with 25 images in one account, three successive list calls
\* of page size 10 that follow the returned cursors yield 10, 10 and 5 records
\* with no overlaps, and a fourth call with the cursor of the third yields 0
\* records and an empty next cursor.
C21_FourthCallEmpty ==
    /\ ThreePages
    /\ walk.calls = 4 => walk.page = <<>> /\ walk.cursor = <<>>

\* C21 (amended): the three calls yield 10, 10 and 5 records with no overlaps
\* and the third returns an empty cursor; a fourth call with that empty cursor
\* starts over: it yields the 10 records of the first call and a cursor.
C21_ThirdCallEndsListing ==
    /\ ThreePages
    /\ walk.calls = 3 => walk.cursor = <<>>
    /\ walk.calls = 4 =>
          /\ walk.sent = <<>>
          /\ walk.page = SubSeq(walk.all, 1, 10)
          /\ walk.cursor # <<>>

\* The fourth call has been answered, in descending order, over images of two
\* upload times.
C21_Witness ==
    /\ walk.calls = 4
    /\ walk.phase = "over"
    /\ walk.so = "desc"
    /\ Len(walk.all) = 35
    /\ \E r1, r2 \in images : r1.uploaded # r2.uploaded


\* ------------------------------------------------------------------------
\* Deleted signing keys
\* ------------------------------------------------------------------------
\* uuid.New() has returned the value and no key of the account holds it: the
\* key that held it has been deleted, or its insert failed.
Revoked(accountID, value) ==
    /\ value \in issued
    /\ \A k \in signing_keys : k.account_id = accountID => k.value # value

\* The delivery, if one was just made with a required signature computed with
\* the value, was answered 403.
DeniedFor(accountID, value) ==
    (/\ dlv.code # 0 /\ dlv.checked /\ dlv.acct = accountID
     /\ dlv.sig = Sign(value, dlv.acct, dlv.img, dlv.variant, dlv.exp))
        => ~dlv.ok /\ dlv.code = 403

\* C22: authorization depends only on the keys registered at the time of the
\* request.  Once a signing key is deleted, every later delivery request whose
\* sig was computed with its value is denied with 403, also when the deletion
\* made the "default" key; and a request is authorized only by a signature
\* computed with the value of a key registered at that time.
C22_DeletedKeyDenied ==
    /\ \A v \in KeyUuids : [](Revoked(AcctA, v) => []DeniedFor(AcctA, v))
    /\ [](dlv.checked /\ dlv.ok =>
            \E k \in signing_keys :
                /\ k.account_id = dlv.acct
                /\ dlv.sig = Sign(k.value, dlv.acct, dlv.img, dlv.variant, dlv.exp))

\* A DeleteSigningKey request has been answered 200 and has made the "default"
\* key; a request signed with the deleted key's value, not yet expired, is
\* denied.
C22_Witness ==
    /\ reqs[1].h = "DeleteSigningKey" /\ reqs[1].resp = 200
    /\ \E k \in signing_keys : k.account_id = AcctA /\ k.name = "default"
    /\ dlv.code = 403 /\ dlv.checked
    /\ ParseInt(dlv.exp).ok /\ ~Expired(now, ParseInt(dlv.exp).val)
    /\ \E v \in KeyUuids :
         /\ Revoked(AcctA, v)
         /\ dlv.sig = Sign(v, dlv.acct, dlv.img, dlv.variant, dlv.exp)


\* ------------------------------------------------------------------------
\* Specification: uploads, requests to one direct upload URL and deletions of
\* one account in flight together, each a store call a step
\* ------------------------------------------------------------------------
NextBlob ==
    \/ issued = {} /\ CreateDirectUpload(AcctA, FarExpiry, {})
    \/ Cardinality(issued) < MaxUuids - 1
          /\ UploadImage(AcctA, "file", MetaField({}), FALSE, JpegData)
    \/ \E s \in SlotIds : \E u \in {d.id : d \in direct_uploads} :
          HDUGet(s, u, TRUE, JpegData)
    \/ \E s \in SlotIds : HDUStore(s)
    \/ \E s \in SlotIds : HDUCreate(s)
    \/ \E s \in SlotIds : HDUComplete(s)
    \/ \E s \in SlotIds : \E i \in issued : DIDelete(s, AcctA, i)
    \/ \E s \in SlotIds : DIBlob(s)

SpecBlob == InitList /\ [][NextBlob]_vars

\* C28: in every reachable state, under any interleaving of UploadImage,
\* HandleDirectUpload and DeleteImage requests, each image record that GetImage
\* returns has a blob in the store (so that a delivery of an existing record
\* is never answered 404 for a missing blob).
C28_RecordsHaveBlobs ==
    \A r \in images : Retrieve(r.account_id, r.id) # {}


\* ------------------------------------------------------------------------
\* Specification: enforcement on; the variant "v" and a key are made first;
\* then one direct upload URL (with the id "a"), requests to it, updates that set
\* requireSignedURLs and deletions of the image in flight together, and GET
\* /cdn requests in between
\* ------------------------------------------------------------------------
\* The name of no variant.
VarNone == <<119>>

\* The image and variant names and the (sig, exp) parameters of the requests:
\* the upload's id and an id that names no image; "v" and a name of no
\* variant; no signature, and a signature under each key value.
OrderInputs ==
    LET last == FormatInt(Unix(MaxNow))
    IN UNION {{<<i, v, << <<>>, <<>> >> >>}
                \cup {<<i, v, <<Sign(k, AcctA, i, v, last), last>> >> : k \in KeyUuids} :
              i \in {d.id : d \in direct_uploads} \cup {<<122>>},
              v \in {VarV, VarNone}}

NextOrder ==
    \/ direct_uploads = {} /\ CreateVariant(AcctA, VarV, Options("cover", 0, 0), FALSE)
    \/ direct_uploads = {} /\ signing_keys = {} /\ CreateSigningKey(AcctA, "k")
    \/ variants # {} /\ signing_keys # {} /\ direct_uploads = {}
          /\ CreateDirectUpload(AcctA, FarExpiry, {})
          /\ \A d \in direct_uploads' : d.id = <<97>>
    \/ \E s \in SlotIds : \E u \in {d.id : d \in direct_uploads} :
          \E data \in {JpegData, TextData} : HDUGet(s, u, TRUE, data)
    \/ \E s \in SlotIds : HDUStore(s)
    \/ \E s \in SlotIds : HDUCreate(s)
    \/ \E s \in SlotIds : HDUComplete(s)
    \/ \E s \in SlotIds : \E i \in {r.id : r \in images} :
          UIGet(s, AcctA, i, PatchBody(FALSE, {}, TRUE, TRUE))
    \/ \E s \in SlotIds : UIUpdate(s)
    \/ \E s \in SlotIds : \E i \in {r.id : r \in images} : DIDelete(s, AcctA, i)
    \/ \E s \in SlotIds : DIBlob(s)
    \/ \E req \in OrderInputs :
          DeliverImage(AcctA, req[1], req[2], req[3][1], req[3][2], FALSE)

SpecOrder == InitReplay /\ [][NextOrder]_vars


\* What the request just answered finds in the store.
DlvImageFound == \E r \in images : r.account_id = dlv.acct /\ r.id = dlv.img
DlvVariantFound == \E v \in variants : v.account_id = dlv.acct /\ v.id = dlv.variant
DlvSignatureRequired ==
    /\ enforce
    /\ \A r \in images : r.account_id = dlv.acct /\ r.id = dlv.img => r.require_signed_urls
    /\ \A v \in variants : v.account_id = dlv.acct /\ v.id = dlv.variant
                              => ~v.never_require_signed_urls
DlvBlobFound == \E b \in blobs : b.account_id = dlv.acct /\ b.image_id = dlv.img
DlvBlobReadable ==
    \E b \in blobs :
        /\ b.account_id = dlv.acct /\ b.image_id = dlv.img
        /\ IsSVG(b.data) \/ DetectFormat(b.data) = "gif" \/ Decodes(b.data)

\* C23: DeliverImage evaluates its checks in a fixed order - image record,
\* variant record, signature (when required), blob, transform - and the first
\* failing check alone determines the response (404, 404, 403, 404, 500); a
\* request that fails the signature check never reads the blob store, and only
\* a request passing all checks gets 200 with image bytes.
C23_ChecksInOrder ==
    dlv.code # 0 =>
        LET signed == ~DlvSignatureRequired \/ ValidSignature(dlv)
        IN /\ ~DlvImageFound =>
                dlv.code = 404 /\ dlv.msg = "image not found" /\ ~dlv.read
           /\ DlvImageFound /\ ~DlvVariantFound =>
                dlv.code = 404 /\ dlv.msg = "variant not found" /\ ~dlv.read
           /\ DlvImageFound /\ DlvVariantFound /\ ~signed =>
                dlv.code = 403 /\ ~dlv.read
           /\ DlvImageFound /\ DlvVariantFound /\ signed /\ ~DlvBlobFound =>
                dlv.code = 404 /\ dlv.msg = "image not found" /\ dlv.read
           /\ DlvImageFound /\ DlvVariantFound /\ signed /\ DlvBlobFound
                  /\ ~DlvBlobReadable =>
                dlv.code = 500
           /\ dlv.code = 200 <=>
                DlvImageFound /\ DlvVariantFound /\ signed /\ DlvBlobReadable
           /\ dlv.code = 200 => dlv.out # NoData

\* A request without a valid signature for a record that requires one and has
\* no blob: answered 403, the blob store not read.
C23_Witness ==
    /\ dlv.code = 403 /\ ~dlv.read
    /\ DlvImageFound /\ DlvVariantFound /\ DlvSignatureRequired
    /\ ~DlvBlobFound


\* C24: for fit crop, the output dimensions equal the target width and height
\* exactly for every source size, also when the target is larger than the
\* source on one or both axes.
C24_CropEqualsTarget ==
    Fitted("crop") /\ DlvVariant.width > 0 /\ DlvVariant.height > 0 =>
        dlv.out.w = DlvVariant.width /\ dlv.out.h = DlvVariant.height


\* ------------------------------------------------------------------------
\* Specification: enforcement on, one image that requires signed URLs, the
\* variants "v" and "v1", a key; a client is given a signed URL (the first
\* request that is authorized) and sends its sig again with the variant names
\* and exp values below
\* ------------------------------------------------------------------------
BindingVariants == {VarV, VarV \o <<Digit(1)>>}

\* The seconds of the clock, and the same with the digit 1 before them.
BindingExps == ExpSeconds \cup {<<Digit(1)>> \o e : e \in ExpSeconds}

NextBinding ==
    \/ Tick
    \/ images = {} /\ now = 0
          /\ UploadImageWith({<<97>>} \ issued, AcctA, "file", MetaField({}), TRUE, JpegData)
    \/ \E v \in BindingVariants :
          GetVariant(AcctA, v) = {} /\ CreateVariant(AcctA, v, Options("cover", 0, 0), FALSE)
    \/ signing_keys = {} /\ CreateSigningKey(AcctA, "k")
    \/ ~auth.set /\ \E i \in ImageInputs(AcctA), v \in BindingVariants, e \in BindingExps :
          \E k \in ListSigningKeys(AcctA) :
              DeliverImage(AcctA, i, v, Sign(k.value, AcctA, i, v, e), e, TRUE)
    \/ auth.set /\ \E i \in ImageInputs(AcctA), v \in BindingVariants, e \in BindingExps :
          DeliverImage(AcctA, i, v, auth.sig, e, FALSE)

SpecBinding == InitReplay /\ [][NextBinding]_vars

\* C25: a signature issued for one (account, image, variant) path and one exp
\* value authorizes only requests with exactly that path and exactly that exp
\* string: no request naming another image, another variant or another exp is
\* authorized by it.
C25_SignatureBindsPathAndExp ==
    auth.set /\ dlv.checked /\ dlv.ok /\ dlv.sig = auth.sig =>
        /\ dlv.acct = auth.acct
        /\ dlv.img = auth.img
        /\ dlv.variant = auth.variant
        /\ dlv.exp = auth.exp


\* ------------------------------------------------------------------------
\* Specification: uploads with metadata, direct uploads with metadata, PATCH
\* requests that set the metadata and deletions in one account; when no
\* request is in flight, a client lists the account with a filter key eq value
\* ------------------------------------------------------------------------
AtRest == \A s \in SlotIds : reqs[s].pc = "idle"

EqFilters == {{[key |-> MetaKey, op |-> "eq", value |-> StrVal(<<Digit(n)>>)]} : n \in 1..2}

NextIndex ==
    \/ Quiet /\ Cardinality(issued) < MaxUuids - 1
             /\ \E m \in Metas : UploadImage(AcctA, "file", MetaField(m), FALSE, JpegData)
    \/ Quiet /\ Cardinality(issued) < MaxUuids - 1
             /\ \E m \in DirectMetas : CreateDirectUpload(AcctA, FarExpiry, m)
    \/ Quiet /\ \E u \in {d.id : d \in direct_uploads} : HDUGet(1, u, TRUE, JpegData)
    \/ Quiet /\ HDUStore(1)
    \/ Quiet /\ HDUCreate(1)
    \/ Quiet /\ HDUSetMeta(1)
    \/ Quiet /\ HDUComplete(1)
    \/ Quiet /\ \E i \in {r.id : r \in images}, m \in Metas :
                   UIGet(1, AcctA, i, PatchBody(TRUE, m, FALSE, FALSE))
    \/ Quiet /\ UIUpdate(1)
    \/ Quiet /\ \E i \in {r.id : r \in images} : DeleteImage(AcctA, i)
    \/ AtRest /\ \E fs \in EqFilters : ListRequest(AcctA, <<>>, "", <<>>, fs)

SpecIndex == InitList /\ [][NextIndex]_vars

\* C26: after any sequence of UploadImage, UpdateImage, HandleDirectUpload and
\* DeleteImage requests, an image is returned by a listing filtered with
\* key eq value if and only if its image record's metadata has that key with
\* that value.
C26_IndexAgreesWithRecords ==
    walk.phase = "done" /\ walk.code = 200 /\ walk.filters # {} =>
        \A f \in walk.filters :
            {walk.page[i].ID : i \in 1..Len(walk.page)} =
                {r.id : r \in {x \in AccountRows(walk.acct) : Satisfies(x.meta, f)}}

\* ------------------------------------------------------------------------
\* Two PATCH requests on one image, in flight together
\* ------------------------------------------------------------------------
\* The first request carries only the metadata member, the second only
\* requireSignedURLs; the image was uploaded with other metadata and public.
PatchMeta == {[key |-> MetaKey, value |-> StrVal(<<Digit(2)>>)]}
MetaOnlyBody == PatchBody(TRUE, PatchMeta, FALSE, FALSE)
SignedOnlyBody == PatchBody(FALSE, {}, TRUE, TRUE)

NextPatch ==
    \/ Tick
    \/ images = {} /\ \E m \in Metas \ {PatchMeta} :
                        UploadImage(AcctA, "file", MetaField(m), FALSE, JpegData)
    \/ \E i \in {r.id : r \in images} : UIGet(1, AcctA, i, MetaOnlyBody)
    \/ \E i \in {r.id : r \in images} : UIGet(2, AcctA, i, SignedOnlyBody)
    \/ \E s \in SlotIds : UIUpdate(s)

SpecPatch == InitList /\ [][NextPatch]_vars

BothPatchesDone ==
    \A s \in SlotIds : reqs[s].h = "UpdateImage" /\ reqs[s].pc = "idle" /\ reqs[s].resp = 200

\* C27: when a PATCH of only the metadata and a PATCH of only
\* requireSignedURLs on the same image have both completed, the stored record
\* carries the new metadata and the new requireSignedURLs value.
C27_BothPatchesTakeEffect ==
    BothPatchesDone =>
        \A r \in AccountRows(AcctA) : r.meta = PatchMeta /\ r.require_signed_urls

\* ------------------------------------------------------------------------
\* The same GET /v2 request sent twice while the store is left alone
\* ------------------------------------------------------------------------
\* The second request: the parameters of the kept one, the token it sent
\* included.  range r.URL.Query() walks a Go map, so the filter that comes
\* first is chosen anew.
ListRepeat ==
    /\ walk.phase = "done"
    /\ \E f \in (IF walk.filters = {} THEN {NoFilter} ELSE walk.filters) :
         LET ans == ListV2Answer(walk.acct, walk.pp, walk.so, walk.sent,
                                 walk.filters, f)
         IN walk' = [walk EXCEPT
                       !.phase = "over",
                       !.cursor = ans.token,
                       !.page = ans.images,
                       !.all = walk.all \o ans.images,
                       !.calls = walk.calls + 1,
                       !.code = ans.code]
    /\ UNCHANGED <<dbVars, now, issued, enforce, reqs, uploadOK, auth>>
    /\ dlv' = NoDelivery

\* Requests with no filter, one filter, and two filters (two parameters of
\* different names).
RepeatFilters ==
    LET F(op, n) == [key |-> MetaKey, op |-> op, value |-> StrVal(<<Digit(n)>>)]
    IN {{}, {F("eq", 1)}, {F("eq", 1), F("ne", 1)}, {F("eq", 1), F("gte", 1)}}

NextRepeat ==
    \/ Quiet /\ Cardinality(issued) < MaxUuids - 1
             /\ \E m \in DirectMetas : CreateDirectUpload(AcctA, FarExpiry, m)
    \/ Quiet /\ \E u \in {d.id : d \in direct_uploads} : HDUGet(1, u, TRUE, JpegData)
    \/ Quiet /\ HDUStore(1)
    \/ Quiet /\ HDUCreate(1)
    \/ Quiet /\ HDUSetMeta(1)
    \/ Quiet /\ HDUComplete(1)
    \/ AtRest /\ \E pp \in FilterPerPageInputs, so \in SortInputs, fs \in RepeatFilters :
                    ListRequest(AcctA, pp, so, <<>>, fs)
    \/ ListRepeat

SpecRepeat == InitList /\ [][NextRepeat]_vars

\* C29: a GET /v2 request sent again with the same parameters, the store
\* unchanged in between, gets the same page and the same continuation token,
\* whether it carries no filter, one or several.
C29_ListingDeterministic ==
    [][walk.phase = "done" /\ walk'.phase = "over" =>
          walk'.page = walk.page /\ walk'.cursor = walk.cursor]_vars

\* ------------------------------------------------------------------------
\* Uploads that are answered with an error, among uploads that succeed and
\* deletions
\* ------------------------------------------------------------------------
UploadSources == {"file", "url", "none"}
UploadFields == {MetaField({}), MetaField(PatchMeta), BadMetaField}

NextReject ==
    \/ Tick
    \/ \E s \in SlotIds, src \in UploadSources, mf \in UploadFields, dbOK \in BOOLEAN :
          UploadImageRequest(s, AcctA, src, mf, FALSE, JpegData, dbOK)
    \/ \E i \in {r.id : r \in images} : DeleteImage(AcctA, i)

SpecReject == InitList /\ [][NextReject]_vars

\* The step is an upload request s that got an error answer.
RejectedUpload(s) ==
    /\ reqs'[s] # reqs[s]
    /\ reqs'[s].h = "UploadImage"
    /\ reqs'[s].resp >= 400

\* C30: an upload request answered with an error (no file and no url, a
\* metadata field that is not JSON, or a record that could not be created)
\* leaves the image records and the stored blobs as they were.
C30_RejectedUploadChangesNothing ==
    [][\A s \in SlotIds : RejectedUpload(s) => images' = images /\ blobs' = blobs]_vars
====
